---- MODULE Spec2Model ----
(***************************************************************************)
(* A model of the Surfline forecast harvester:                             *)
(*   - SurflineAPI._get, the 429-aware GET of surfline_client.py;          *)
(*   - the eight CSV flatteners of surfline_client.py;                     *)
(*   - harvest_forecasts_for_range of fetch_forecast_history.py.           *)
(*   - compute_24h_forecast_drift and the script of analyze_history.py;    *)
(*   - the file names written by the harvesters and read by the analysis;  *)
(*   - ensure_logged_in_or_token and the token attached to a request.      *)
(* The specifications share the variables: ClientSpec steps one _get       *)
(* call, FlattenSpec applies one flattener to one payload, Spec runs the   *)
(* harvest over a date range, DriftSpec applies the drift join to one      *)
(* frame, AnalyzeSpec runs the analysis script on one folder, NameSpec     *)
(* writes and parses one file name, and AuthSpec resolves the credentials  *)
(* and sends one request.                                                  *)
(***************************************************************************)
EXTENDS Integers, Sequences, FiniteSets, TLC

VARIABLES
    g,          \* the locals of the running SurflineAPI._get call
    fKind,      \* which flattener is applied (FlattenSpec)
    fJson,      \* the decoded payload handed to it
    fOut,       \* what flatten did: not called yet, returned rows, or raised
    fFile,      \* what <Kind>CSV.write made of the rows at a fresh path
    hpc,        \* position of harvest_forecasts_for_range
    cfg,        \* its arguments: number of days in the range, subregion_id set
    cur,        \* the loop variable cur, as a day number (start_date = 1)
    kidx,       \* index of the next series-kind block inside the loop body
    loopCalls,  \* client invocations made by the loop, per (day, kind)
    probeCalls, \* client invocations made by the metadata probe
    files,      \* the output folder: (day, kind) -> rows of the file, or NoFile
    failed,     \* the (day, kind) blocks whose except branch ran
    last,       \* what the last executed block did
    faults,     \* how many blocks so far did not write the default rows
    paced,      \* the lengths of the pacing sleeps the loop has made
    df,         \* the frame handed to compute_24h_forecast_drift
    drift,      \* what compute_24h_forecast_drift returned
    an,         \* the analysis script: its folder, position and outcome
    nm,         \* a file name: the date it is written for, the name, the parse
    au          \* credentials: environment, stored token, last request sent

vars == <<g, fKind, fJson, fOut, fFile, hpc, cfg, cur, kidx, loopCalls, probeCalls,
          files, failed, last, faults, paced, df, drift, an, nm, au>>

(***************************************************************************)
(* Python values.  A value is a record: t is its type, n its number (for   *)
(* num, bool and str: a str is named by a number, 0 being the empty        *)
(* string), s its items (for list and dict), and k the key it is stored    *)
(* under when it is an item of a dict ("" otherwise).  A dict keeps its    *)
(* items in insertion order, as Python does.                               *)
(***************************************************************************)
PyNone == [k |-> "", t |-> "none", n |-> 0, s |-> <<>>]
PyNum(x) == [k |-> "", t |-> "num", n |-> x, s |-> <<>>]
PyStr(x) == [k |-> "", t |-> "str", n |-> x, s |-> <<>>]
PyBool(b) == [k |-> "", t |-> "bool", n |-> IF b THEN 1 ELSE 0, s |-> <<>>]
PyList(items) == [k |-> "", t |-> "list", n |-> 0, s |-> items]
PyDict(items) == [k |-> "", t |-> "dict", n |-> 0, s |-> items]
Entry(key, v) == [v EXCEPT !.k = key]

IsDict(v) == v.t = "dict"
IsList(v) == v.t = "list"

\* Python truth value, as used by `x or y` and `if x`.
Truthy(v) ==
    CASE v.t = "none" -> FALSE
      [] v.t \in {"num", "bool", "str"} -> v.n # 0
      [] OTHER -> v.s # <<>>

\* x or y
PyOr(x, y) == IF Truthy(x) THEN x ELSE y

HasKey(d, key) == \E i \in 1..Len(d.s) : d.s[i].k = key

\* d.get(key, dflt) on a dict d
DictGet(d, key, dflt) ==
    IF HasKey(d, key)
    THEN Entry("", d.s[CHOOSE i \in 1..Len(d.s) : d.s[i].k = key])
    ELSE dflt

\* row[key] = v : a present key keeps its place, a new key goes last
RowSet(row, key, v) ==
    IF \E i \in 1..Len(row) : row[i].k = key
    THEN [i \in 1..Len(row) |-> IF row[i].k = key THEN Entry(key, v) ELSE row[i]]
    ELSE Append(row, Entry(key, v))

RECURSIVE RowUpdate(_, _)
\* row.update(fields)
RowUpdate(row, fields) ==
    IF fields = <<>> THEN row
    ELSE RowUpdate(RowSet(row, Head(fields).k, Head(fields)), Tail(fields))

RowKeys(row) == {row[i].k : i \in 1..Len(row)}
RowGet(row, key) == Entry("", row[CHOOSE i \in 1..Len(row) : row[i].k = key])

(***************************************************************************)
(* The CSV helpers of surfline_client.py.  A flatten either returns rows   *)
(* or raises; a raise anywhere in its loop ends the call with no rows.     *)
(***************************************************************************)
Ok(rows) == [raised |-> FALSE, rows |-> rows]
Raise == [raised |-> TRUE, rows |-> <<>>]

RECURSIVE ConcatRows(_)
ConcatRows(rs) ==
    IF rs = <<>> THEN <<>> ELSE Head(rs).rows \o ConcatRows(Tail(rs))

RECURSIVE MergeByTimestamp(_, _)
\* the rows with one row kept per timestamp: a later row of a timestamp
\* already seen is dropped
MergeByTimestamp(rows, seen) ==
    IF rows = <<>> THEN <<>>
    ELSE LET ts == RowGet(Head(rows), "timestamp")
         IN  IF ts \in seen THEN MergeByTimestamp(Tail(rows), seen)
             ELSE <<Head(rows)>> \o MergeByTimestamp(Tail(rows), seen \cup {ts})

\* Collect with the rows deduplicated by timestamp
Collect_by_timestamp(rs) ==
    IF \E i \in 1..Len(rs) : rs[i].raised THEN Raise
    ELSE Ok(MergeByTimestamp(ConcatRows(rs), {}))

\* The loop `for point in series: out += rows(point)` given each point's result.
Collect(rs) ==
    IF \E i \in 1..Len(rs) : rs[i].raised THEN Raise ELSE Ok(ConcatRows(rs))

_first_list_in_data(data) ==
    IF \E i \in 1..Len(data.s) : IsList(data.s[i])
    THEN Entry("", data.s[CHOOSE i \in 1..Len(data.s) :
                     /\ IsList(data.s[i])
                     /\ \A j \in 1..(i-1) : ~IsList(data.s[j])])
    ELSE PyList(<<>>)

\* a leaf test that lets lists through
IsSimple_or_list(v) == v.t \in {"str", "num", "bool", "none", "list"}

\* isinstance(v, (str, int, float, bool)) or v is None
IsSimple(v) == v.t \in {"str", "num", "bool", "none"}

\* _flatten_simple_fields(obj, prefix=...) on a dict obj
_flatten_simple_fields(obj, prefix) ==
    LET keep == SelectSeq(obj.s, IsSimple)
    IN  [i \in 1..Len(keep) |-> Entry(prefix \o keep[i].k, keep[i])]

\* DataOf with .get("data") in place of .get("data", {})
DataOf_no_default(json_obj) ==
    LET j == PyOr(json_obj, PyDict(<<>>))
    IN  IF IsDict(j)
        THEN [raised |-> FALSE, data |-> DictGet(j, "data", PyNone)]
        ELSE [raised |-> TRUE, data |-> PyNone]

\* (json_obj or {}).get("data", {}) : raised is TRUE when json_obj has no .get
DataOf(json_obj) ==
    LET j == PyOr(json_obj, PyDict(<<>>))
    IN  IF IsDict(j)
        THEN [raised |-> FALSE, data |-> DictGet(j, "data", PyDict(<<>>))]
        ELSE [raised |-> TRUE, data |-> PyNone]

\* `for point in series or []` where the body starts with point.get(...):
\* a falsy series gives no iteration; a truthy one that is not a list yields
\* keys, characters or is not iterable, and the loop raises.
LoopRaises(series) == Truthy(series) /\ ~IsList(series)
LoopItems(series) == IF Truthy(series) /\ IsList(series) THEN series.s ELSE <<>>

\* SurfCSV_point with the min and max of the surf block exchanged
SurfCSV_point_swapped(point) ==
    IF ~IsDict(point) THEN Raise
    ELSE LET r0 == RowSet(<<>>, "timestamp", DictGet(point, "timestamp", PyNone))
             surf_block == PyOr(DictGet(point, "surf", PyNone), PyDict(<<>>))
             r1 == IF IsDict(surf_block)
                   THEN RowSet(RowSet(RowSet(r0,
                          "surf_min", DictGet(surf_block, "max", PyNone)),
                          "surf_max", DictGet(surf_block, "min", PyNone)),
                          "surf_humanRelation",
                          DictGet(surf_block, "humanRelation", PyNone))
                   ELSE r0
         IN  Ok(<<RowUpdate(r1, _flatten_simple_fields(point, ""))>>)

SurfCSV_point(point) ==
    IF ~IsDict(point) THEN Raise
    ELSE LET r0 == RowSet(<<>>, "timestamp", DictGet(point, "timestamp", PyNone))
             surf_block == PyOr(DictGet(point, "surf", PyNone), PyDict(<<>>))
             r1 == IF IsDict(surf_block)
                   THEN RowSet(RowSet(RowSet(r0,
                          "surf_min", DictGet(surf_block, "min", PyNone)),
                          "surf_max", DictGet(surf_block, "max", PyNone)),
                          "surf_humanRelation",
                          DictGet(surf_block, "humanRelation", PyNone))
                   ELSE r0
         IN  Ok(<<RowUpdate(r1, _flatten_simple_fields(point, ""))>>)

SurfCSV_flatten(json_obj) ==
    LET d == DataOf(json_obj) IN
    IF d.raised \/ ~IsDict(d.data) THEN Raise
    ELSE LET series == PyOr(DictGet(d.data, "surf", PyNone),
                            _first_list_in_data(d.data))
             items == LoopItems(series)
         IN  IF LoopRaises(series) THEN Raise
             ELSE Collect([i \in 1..Len(items) |-> SurfCSV_point(items[i])])

SwellsCSV_component(ts, idx, swell) ==
    IF ~IsDict(swell) THEN Raise
    ELSE Ok(<<RowUpdate(<<Entry("timestamp", ts),
                          Entry("component_index", PyNum(idx))>>,
                        _flatten_simple_fields(swell, "swell_"))>>)

\* SwellsCSV_point skipping a point that has no timestamp
SwellsCSV_point_needs_timestamp(point) ==
    IF ~IsDict(point) THEN Raise
    ELSE LET ts == DictGet(point, "timestamp", PyNone)
             c0 == PyOr(DictGet(point, "swells", PyNone), PyList(<<>>))
             comps == IF IsList(c0) THEN c0.s ELSE <<>>
         IN  IF ts = PyNone THEN Ok(<<>>)
             ELSE Collect([idx \in 1..Len(comps) |->
                              SwellsCSV_component(ts, idx, comps[idx])])

\* SwellsCSV_point keeping the first six components only (comps[:6])
SwellsCSV_point_first_six(point) ==
    IF ~IsDict(point) THEN Raise
    ELSE LET ts == DictGet(point, "timestamp", PyNone)
             c0 == PyOr(DictGet(point, "swells", PyNone), PyList(<<>>))
             all == IF IsList(c0) THEN c0.s ELSE <<>>
             comps == IF Len(all) > 6 THEN SubSeq(all, 1, 6) ELSE all
         IN  Collect([idx \in 1..Len(comps) |->
                         SwellsCSV_component(ts, idx, comps[idx])])

SwellsCSV_point(point) ==
    IF ~IsDict(point) THEN Raise
    ELSE LET ts == DictGet(point, "timestamp", PyNone)
             c0 == PyOr(DictGet(point, "swells", PyNone), PyList(<<>>))
             comps == IF IsList(c0) THEN c0.s ELSE <<>>
         IN  Collect([idx \in 1..Len(comps) |->
                         SwellsCSV_component(ts, idx, comps[idx])])

SwellsCSV_flatten(json_obj) ==
    LET d == DataOf(json_obj) IN
    IF d.raised \/ ~IsDict(d.data) THEN Raise
    ELSE LET series == PyOr(DictGet(d.data, "swells", PyNone),
                            _first_list_in_data(d.data))
             items == LoopItems(series)
         IN  IF LoopRaises(series) THEN Raise
             ELSE Collect([i \in 1..Len(items) |-> SwellsCSV_point(items[i])])

RatingCSV_point(point) ==
    IF ~IsDict(point) THEN Raise
    ELSE LET r0 == RowSet(<<>>, "timestamp", DictGet(point, "timestamp", PyNone))
             rating_val == DictGet(point, "rating", PyNone)
             r1 == IF IsDict(rating_val)
                   THEN RowUpdate(r0, _flatten_simple_fields(rating_val, "rating_"))
                   ELSE IF rating_val.t # "none"
                        THEN RowSet(r0, "rating_value", rating_val)
                        ELSE r0
         IN  Ok(<<RowUpdate(r1, _flatten_simple_fields(point, ""))>>)

RatingCSV_flatten(json_obj) ==
    LET d == DataOf(json_obj) IN
    IF d.raised \/ ~IsDict(d.data) THEN Raise
    ELSE LET series == PyOr(DictGet(d.data, "rating", PyNone),
                            PyOr(DictGet(d.data, "ratings", PyNone),
                                 _first_list_in_data(d.data)))
             items == LoopItems(series)
         IN  IF LoopRaises(series) THEN Raise
             ELSE Collect([i \in 1..Len(items) |-> RatingCSV_point(items[i])])

\* One spectral bin: a bin that is not a dict is skipped, its index is used up.
SpectraCSV_bin(ts, idx, b) ==
    IF ~IsDict(b) THEN Ok(<<>>)
    ELSE Ok(<<RowUpdate(<<Entry("timestamp", ts), Entry("bin_index", PyNum(idx))>>,
                        _flatten_simple_fields(b, "bin_"))>>)

SpectraCSV_point(point) ==
    IF ~IsDict(point) THEN Ok(<<>>)
    ELSE LET ts == DictGet(point, "timestamp", PyNone)
             bins == PyOr(DictGet(point, "bins", PyNone),
                          PyOr(DictGet(point, "data", PyNone), PyList(<<>>)))
         IN  IF ~IsList(bins) THEN Ok(<<>>)
             ELSE Collect([idx \in 1..Len(bins.s) |->
                             SpectraCSV_bin(ts, idx, bins.s[idx])])

SpectraCSV_flatten(json_obj) ==
    LET d == DataOf(json_obj) IN
    IF d.raised THEN Raise
    ELSE IF ~IsDict(d.data) THEN Ok(<<>>)
    ELSE LET series == PyOr(DictGet(d.data, "spectra", PyNone),
                            _first_list_in_data(d.data))
         IN  IF ~IsList(series) THEN Ok(<<>>)
             ELSE Collect([i \in 1..Len(series.s) |-> SpectraCSV_point(series.s[i])])

SunlightCSV_point(point) ==
    IF ~IsDict(point) THEN Raise
    ELSE Ok(<<RowUpdate(<<Entry("timestamp", DictGet(point, "timestamp", PyNone))>>,
                        _flatten_simple_fields(point, ""))>>)

SunlightCSV_flatten(json_obj) ==
    LET d == DataOf(json_obj) IN
    IF d.raised \/ ~IsDict(d.data) THEN Raise
    ELSE LET series == PyOr(DictGet(d.data, "sunlight", PyNone),
                            _first_list_in_data(d.data))
             items == LoopItems(series)
         IN  IF LoopRaises(series) THEN Raise
             ELSE Collect([i \in 1..Len(items) |-> SunlightCSV_point(items[i])])

WindCSV_point(point) ==
    IF ~IsDict(point) THEN Raise
    ELSE Ok(<<RowUpdate(<<Entry("timestamp", DictGet(point, "timestamp", PyNone))>>,
                        _flatten_simple_fields(point, ""))>>)

WindCSV_flatten(json_obj) ==
    LET d == DataOf(json_obj) IN
    IF d.raised \/ ~IsDict(d.data) THEN Raise
    ELSE LET series == PyOr(DictGet(d.data, "wind", PyNone),
                            PyOr(DictGet(d.data, "windModel", PyNone),
                                 _first_list_in_data(d.data)))
             items == LoopItems(series)
         IN  IF LoopRaises(series) THEN Raise
             ELSE Collect([i \in 1..Len(items) |-> WindCSV_point(items[i])])

TidesCSV_point(t) ==
    IF ~IsDict(t) THEN Raise
    ELSE Ok(<<RowUpdate(<<Entry("timestamp", DictGet(t, "timestamp", PyNone)),
                          Entry("type", DictGet(t, "type", PyNone)),
                          Entry("height", DictGet(t, "height", PyNone))>>,
                        _flatten_simple_fields(t, ""))>>)

\* (json_obj or {}).get("data", {}).get("tides", []) or [] : no fallback search
TidesCSV_flatten(json_obj) ==
    LET d == DataOf(json_obj) IN
    IF d.raised \/ ~IsDict(d.data) THEN Raise
    ELSE LET series == PyOr(DictGet(d.data, "tides", PyList(<<>>)), PyList(<<>>))
         IN  IF ~IsList(series) THEN Raise
             ELSE Collect([i \in 1..Len(series.s) |-> TidesCSV_point(series.s[i])])

RegionConditionsCSV_point(c) ==
    IF ~IsDict(c) THEN Raise
    ELSE LET r0 == RowUpdate(<<Entry("timestamp", DictGet(c, "timestamp", PyNone))>>,
                             _flatten_simple_fields(c, ""))
             weather == PyOr(DictGet(c, "weather", PyNone), PyDict(<<>>))
         IN  Ok(<<IF IsDict(weather)
                  THEN RowUpdate(r0, _flatten_simple_fields(weather, "weather_"))
                  ELSE r0>>)

RegionConditionsCSV_flatten(json_obj) ==
    LET d == DataOf(json_obj) IN
    IF d.raised \/ ~IsDict(d.data) THEN Raise
    ELSE LET series == PyOr(DictGet(d.data, "conditions", PyNone),
                            _first_list_in_data(d.data))
             items == LoopItems(series)
         IN  IF LoopRaises(series) THEN Raise
             ELSE Collect([i \in 1..Len(items) |-> RegionConditionsCSV_point(items[i])])

\* The series kinds, in the order the harvest loop requests them.
Kinds == <<"surf", "swells", "rating", "spectra", "sunlight", "wind", "tides",
           "conditions">>
KindSet == {Kinds[i] : i \in 1..Len(Kinds)}

\* The flattener the harvest pairs with each series kind.
Flatten(kind, json_obj) ==
    CASE kind = "surf" -> SurfCSV_flatten(json_obj)
      [] kind = "swells" -> SwellsCSV_flatten(json_obj)
      [] kind = "rating" -> RatingCSV_flatten(json_obj)
      [] kind = "spectra" -> SpectraCSV_flatten(json_obj)
      [] kind = "sunlight" -> SunlightCSV_flatten(json_obj)
      [] kind = "wind" -> WindCSV_flatten(json_obj)
      [] kind = "tides" -> TidesCSV_flatten(json_obj)
      [] OTHER -> RegionConditionsCSV_flatten(json_obj)

(***************************************************************************)
(* SurflineAPI._get.  A response is what one session.get meets: status 0   *)
(* stands for a transport failure (no response at all), retry_after is the *)
(* Retry-After header and body the decoded payload (json_ok: it decodes).  *)
(***************************************************************************)
\* a loop that allows one attempt more
max_attempts_one_more == 5 + 1

max_attempts == 5
base_sleep == 5

NoRetryAfter == [form |-> "absent", secs |-> 0]
DigitsRetryAfter(x) == [form |-> "digits", secs |-> x]
\* Retry-After given as an HTTP-date that lies x seconds ahead
DateRetryAfter(x) == [form |-> "date", secs |-> x]

Response(status, hdr, ok, body) ==
    [status |-> status, retry_after |-> hdr, json_ok |-> ok, body |-> body]

\* r.raise_for_status(): HTTPError for the client and server error statuses
RaisesHTTPError(status) == status >= 400 /\ status < 600

\* retry_after_hdr and retry_after_hdr.isdigit()
UsesRetryAfter(hdr) == hdr.form = "digits"

\* a backoff that does not grow with the attempt
RetryWait_flat(hdr, attempt) ==
    IF UsesRetryAfter(hdr) THEN hdr.secs ELSE base_sleep

\* the wait of the 429 branch
RetryWait(hdr, attempt) ==
    IF UsesRetryAfter(hdr) THEN hdr.secs ELSE base_sleep * attempt

\* an except clause that retries after every HTTPError
IsRateLimit_any(status) == TRUE

\* status == 429
IsRateLimit(status) == status = 429

\* the locals at entry to _get
NewGet ==
    [pc |-> "get", attempt |-> 1, gets |-> 0, hist |-> <<>>, waits |-> <<>>,
     log |-> <<>>, wait |-> 0, err |-> "none", ret |-> PyNone]

GetIdle == [NewGet EXCEPT !.pc = "idle"]

\* One pass of the try block: the GET, raise_for_status, r.json(), and the
\* except clauses up to (not including) time.sleep.
GetStep(st, resp) ==
    LET st1 == [st EXCEPT !.gets = @ + 1,
                          !.hist = Append(@, resp.status),
                          !.log = Append(@, "GET")]
    IN  IF resp.status = 0
        THEN [st1 EXCEPT !.pc = "raised", !.err = "transport"]
        ELSE IF RaisesHTTPError(resp.status)
        THEN IF IsRateLimit(resp.status)
             THEN [st1 EXCEPT !.pc = "sleep",
                              !.wait = RetryWait(resp.retry_after, st.attempt),
                              !.waits = Append(@,
                                  [attempt |-> st.attempt,
                                   hdr |-> resp.retry_after,
                                   wait |-> RetryWait(resp.retry_after, st.attempt)])]
             ELSE [st1 EXCEPT !.pc = "raised", !.err = "HTTPError"]
        ELSE IF resp.json_ok
             THEN [st1 EXCEPT !.pc = "returned", !.ret = resp.body]
             ELSE [st1 EXCEPT !.pc = "raised", !.err = "decode"]

\* a 429 branch that gives up on the last attempt without sleeping
SleepStep_skip_last(st) ==
    IF st.attempt < max_attempts
    THEN [st EXCEPT !.log = Append(@, "SLEEP"), !.wait = 0, !.pc = "get",
                    !.attempt = @ + 1]
    ELSE [st EXCEPT !.wait = 0, !.pc = "raised", !.err = "RuntimeError"]

\* time.sleep(wait); continue -- and, when the for loop is used up, the
\* RuntimeError that follows it.
SleepStep(st) ==
    LET st1 == [st EXCEPT !.log = Append(@, "SLEEP"), !.wait = 0]
    IN  IF st.attempt < max_attempts
        THEN [st1 EXCEPT !.pc = "get", !.attempt = @ + 1]
        ELSE [st1 EXCEPT !.pc = "raised", !.err = "RuntimeError"]

GetEnded(st) == st.pc \in {"returned", "raised"}

RECURSIVE RunGet(_, _)
\* A whole _get call against a provider that answers with resps, in order
\* (and with bare 429s once resps is used up).
RunGet(st, resps) ==
    IF GetEnded(st) THEN st
    ELSE IF st.pc = "sleep" THEN RunGet(SleepStep(st), resps)
    ELSE IF resps = <<>>
         THEN RunGet(GetStep(st, Response(429, NoRetryAfter, FALSE, PyNone)), resps)
         ELSE RunGet(GetStep(st, Head(resps)), Tail(resps))

(***************************************************************************)
(* Bounds of the explored inputs.                                          *)
(***************************************************************************)
MaxComps == 7       \* longest component list of a point
MaxPoints == 2      \* longest series built from the core points
MaxDays == 2        \* longest date range of a harvest
MaxFaults == 1      \* blocks of one harvest that deviate from the default

(***************************************************************************)
(* Payloads handed to the flatteners: every shape of the decoded JSON the  *)
(* code distinguishes -- no payload, no data, data of another type, the    *)
(* series under its own key, under another key, missing, or mistyped, and  *)
(* points with and without timestamp, nested block and plain fields.       *)
(***************************************************************************)
\* the key of the nested block the flattener of a kind looks into
BlockKey(kind) ==
    CASE kind = "surf" -> "surf"
      [] kind = "swells" -> "swells"
      [] kind = "rating" -> "rating"
      [] kind = "spectra" -> "bins"
      [] kind = "conditions" -> "weather"
      [] OTHER -> "detail"

Comp(i) == PyDict(<<Entry("height", PyNum(i)), Entry("period", PyNum(10 + i))>>)
Comps(n) == PyList([i \in 1..n |-> Comp(i)])
BadComps == PyList(<<Comp(1), PyNum(9)>>)
MinMax == PyDict(<<Entry("min", PyNum(21)), Entry("max", PyNum(34))>>)

\* a block whose min is itself an object
NestedMin == PyDict(<<Entry("min", MinMax), Entry("max", PyNum(34))>>)

BlockVals ==
    {PyNone, PyNum(3), MinMax, NestedMin, Comps(0), Comps(1), Comps(MaxComps), BadComps}

TsEntries ==
    {<<>>, <<Entry("timestamp", PyNum(1700))>>, <<Entry("timestamp", MinMax)>>}
BlockEntries(kind) == {<<>>} \cup {<<Entry(BlockKey(kind), b)>> : b \in BlockVals}
PlainEntries == {<<>>, <<Entry("utcOffset", PyNum(8))>>}

DictPoints(kind) ==
    {PyDict(a \o b \o c) :
        a \in TsEntries, b \in BlockEntries(kind), c \in PlainEntries}

CorePoints(kind) ==
    {PyDict(<<Entry("timestamp", PyNum(1700)), Entry(BlockKey(kind), MinMax)>>),
     PyDict(<<Entry("timestamp", PyNum(1700)), Entry("utcOffset", PyNum(8))>>),
     PyDict(<<Entry(BlockKey(kind), Comps(1))>>)}

Points(kind) == DictPoints(kind) \cup {PyNone, PyNum(5), PyStr(1)}

SeriesSet(kind) ==
    {<<>>} \cup {<<p>> : p \in Points(kind)}
           \cup UNION {[1..n -> CorePoints(kind)] : n \in 2..MaxPoints}

Units == Entry("units", PyDict(<<Entry("waveHeight", PyStr(2))>>))

\* the second key a flattener looks under, for those that have one
ModelKey(kind) ==
    CASE kind = "rating" -> "ratings"
      [] kind = "wind" -> "windModel"
      [] OTHER -> "model"

DataSet(kind) ==
    {PyNone, PyNum(5), PyList(<<>>), PyList(<<MinMax>>), PyDict(<<>>),
     PyDict(<<Units>>),
     PyDict(<<Units, Entry(kind, PyNone)>>),
     PyDict(<<Entry(kind, PyNum(7))>>),
     PyDict(<<Entry(kind, MinMax)>>),
     PyDict(<<Entry(kind, PyStr(1))>>)}
    \cup {PyDict(<<Entry(kind, PyList(sr))>>) : sr \in SeriesSet(kind)}
    \cup {PyDict(<<Units, Entry(kind, PyList(sr))>>) : sr \in SeriesSet(kind)}
    \cup {PyDict(<<Entry(kind, PyNone), Entry("other", PyList(sr))>>) :
              sr \in SeriesSet(kind)}
    \cup {PyDict(<<Entry("other", PyList(sr))>>) : sr \in SeriesSet(kind)}
    \cup {PyDict(<<Entry("other", PyList(<<p>>)), Entry(ModelKey(kind), PyList(<<q>>))>>) :
              p \in CorePoints(kind), q \in CorePoints(kind)}
    \cup {PyDict(<<Entry(ModelKey(kind), PyList(<<p>>)), Entry(kind, PyList(<<q>>))>>) :
              p \in CorePoints(kind), q \in CorePoints(kind)}

Payloads(kind) ==
    {PyNone, PyDict(<<>>), PyDict(<<Entry("associated", PyDict(<<>>))>>),
     PyList(<<PyNum(1)>>)}
    \cup {PyDict(<<Entry("associated", PyDict(<<>>)), Entry("data", d)>>) :
              d \in DataSet(kind)}

(***************************************************************************)
(* The parts of the state a specification does not move.                   *)
(***************************************************************************)
NoFile == [exists |-> FALSE, fieldnames |-> <<>>, lines |-> <<>>]
NotCalled == [called |-> FALSE, raised |-> FALSE, rows |-> <<>>]
NoBlock == [day |-> 0, kind |-> "none", what |-> "none", err |-> "none"]

NotWritten == [written |-> FALSE, file |-> NoFile]

FlattenIdle ==
    fKind = "none" /\ fJson = PyNone /\ fOut = NotCalled /\ fFile = NotWritten

HarvestIdle ==
    /\ hpc = "idle"
    /\ cfg = [days |-> 0, subregion |-> FALSE, rerun |-> FALSE]
    /\ cur = 0
    /\ kidx = 0
    /\ loopCalls = <<>>
    /\ probeCalls = 0
    /\ files = <<>>
    /\ failed = {}
    /\ last = NoBlock
    /\ faults = 0
    /\ paced = <<>>

harvestVars == <<hpc, cfg, cur, kidx, loopCalls, probeCalls, files, failed,
                 last, faults, paced>>
flattenVars == <<fKind, fJson, fOut, fFile>>

NoDrift == [called |-> FALSE, pairs |-> <<>>]
DriftIdle == df = <<>> /\ drift = NoDrift
AnalyzeIdle == an = [pc |-> "idle"]
NameIdle == nm = [pc |-> "idle"]
AuthIdle == au = [pc |-> "idle"]

driftVars == <<df, drift>>
toolVars == <<df, drift, an, nm, au>>

(***************************************************************************)
(* FlattenSpec: one flattener applied to one payload, and the rows written *)
(* to a file (the write step follows _write_dict_rows below).              *)
(***************************************************************************)
FlattenInit ==
    /\ fKind \in KindSet
    /\ fJson \in Payloads(fKind)
    /\ fOut = NotCalled
    /\ fFile = NotWritten
    /\ g = GetIdle
    /\ HarvestIdle
    /\ DriftIdle /\ AnalyzeIdle /\ NameIdle /\ AuthIdle

DoFlatten ==
    /\ ~fOut.called
    /\ \E r \in {Flatten(fKind, fJson)} :
          fOut' = [called |-> TRUE, raised |-> r.raised, rows |-> r.rows]
    /\ UNCHANGED <<fKind, fJson, fFile, g, harvestVars, toolVars>>

(***************************************************************************)
(* ClientSpec: one _get call, stepped against every provider behaviour.    *)
(***************************************************************************)
RetryAfters ==
    {NoRetryAfter, DigitsRetryAfter(3), DigitsRetryAfter(120), DateRetryAfter(30)}

Responses ==
    {Response(0, NoRetryAfter, FALSE, PyNone),
     Response(200, NoRetryAfter, TRUE, PyDict(<<>>)),
     Response(200, NoRetryAfter, FALSE, PyNone),
     Response(404, NoRetryAfter, TRUE, PyDict(<<>>)),
     Response(500, NoRetryAfter, FALSE, PyNone)}
    \cup {Response(429, h, FALSE, PyNone) : h \in RetryAfters}

ClientInit ==
    /\ g = NewGet
    /\ FlattenIdle
    /\ HarvestIdle
    /\ DriftIdle /\ AnalyzeIdle /\ NameIdle /\ AuthIdle

DoGet ==
    /\ g.pc = "get"
    /\ \E resp \in Responses : g' = GetStep(g, resp)
    /\ UNCHANGED <<flattenVars, harvestVars, toolVars>>

DoSleep ==
    /\ g.pc = "sleep"
    /\ g' = SleepStep(g)
    /\ UNCHANGED <<flattenVars, harvestVars, toolVars>>

ClientNext == DoGet \/ DoSleep

ClientSpec == ClientInit /\ [][ClientNext]_vars

(***************************************************************************)
(* _write_dict_rows: the header is the keys of the rows in first-seen      *)
(* order, and each row is written under it (csv writes None and a missing  *)
(* key as the empty string).                                               *)
(***************************************************************************)
RECURSIVE FirstSeen(_, _)
FirstSeen(cells, seen) ==
    IF cells = <<>> THEN seen
    ELSE FirstSeen(Tail(cells),
                   IF \E i \in 1..Len(seen) : seen[i] = Head(cells).k
                   THEN seen ELSE Append(seen, Head(cells).k))

\* a header taken from the first row alone
Fieldnames_first_row(rows, seen) ==
    IF rows = <<>> THEN seen ELSE FirstSeen(Head(rows), seen)

RECURSIVE Fieldnames(_, _)
Fieldnames(rows, seen) ==
    IF rows = <<>> THEN seen
    ELSE Fieldnames(Tail(rows), FirstSeen(Head(rows), seen))

CsvCell(row, key) ==
    IF key \in RowKeys(row) /\ RowGet(row, key).t # "none"
    THEN RowGet(row, key) ELSE PyStr(0)

\* the file open(path, "w") ... writerow leaves behind, for non-empty rows
WrittenFile(rows) ==
    LET names == Fieldnames(rows, <<>>)
    IN  [exists |-> TRUE, fieldnames |-> names,
         lines |-> [r \in 1..Len(rows) |->
                       [c \in 1..Len(names) |-> CsvCell(rows[r], names[c])]]]

\* what open(path, "w") leaves when the writing fails after it: the file is
\* there, emptied
TruncatedFile == [exists |-> TRUE, fieldnames |-> <<>>, lines |-> <<>>]

\* a writer that opens the file for appending: the old lines stay, the new
\* ones follow
_write_dict_rows_append(rows, old) ==
    IF rows = <<>> THEN old
    ELSE [WrittenFile(rows) EXCEPT !.lines = old.lines \o @]

\* _write_dict_rows(rows, path), as the file at path afterwards (old: the
\* file before the call): no rows, no write
_write_dict_rows(rows, old) ==
    IF rows = <<>> THEN old ELSE WrittenFile(rows)

\* <Kind>CSV.write(rows, path) on the rows flatten returned, at a path where
\* no file is yet
DoWrite ==
    /\ fOut.called /\ ~fOut.raised
    /\ ~fFile.written
    /\ fFile' = [written |-> TRUE, file |-> _write_dict_rows(fOut.rows, NoFile)]
    /\ UNCHANGED <<fKind, fJson, fOut, g, harvestVars, toolVars>>

FlattenNext == DoFlatten \/ DoWrite

FlattenSpec == FlattenInit /\ [][FlattenNext]_vars

(***************************************************************************)
(* harvest_forecasts_for_range.  Days are numbered from start_date = 1; the *)
(* range start_date..end_date has cfg.days days.                           *)
(***************************************************************************)
SLEEP_BETWEEN_DAYS == 10

Days == 1..MaxDays
Pairs == Days \X KindSet

KindIndex(kind) == CHOOSE i \in 1..Len(Kinds) : Kinds[i] = kind

\* the conditions block runs only `if subregion_id`
Configured(kind) == kind # "conditions" \/ cfg.subregion

\* while cur <= end, with the last day left out
InRange_exclusive(day) == day >= 1 /\ day < cfg.days

\* while cur <= end
InRange(day) == day >= 1 /\ day <= cfg.days

\* an except clause that lets the failure end the run
OnBlockFailure_abort == "aborted"

\* except Exception as e: print(...) -- the loop body goes on
OnBlockFailure == "loop"

OkResponse(body) == Response(200, NoRetryAfter, TRUE, body)
RateLimited == Response(429, NoRetryAfter, FALSE, PyNone)

GoodPoint(kind) ==
    PyDict(<<Entry("timestamp", PyNum(1700)),
             Entry(BlockKey(kind),
                   IF kind \in {"swells", "spectra"} THEN Comps(2) ELSE MinMax)>>)

GoodPayload(kind) ==
    PyDict(<<Entry("data", PyDict(<<Entry(kind, PyList(<<GoodPoint(kind)>>))>>))>>)
EmptyPayload == PyDict(<<Entry("data", PyDict(<<>>))>>)
BadPayload(kind) ==
    PyDict(<<Entry("data", PyDict(<<Entry(kind, PyList(<<PyNum(5)>>))>>))>>)

\* the forecast an earlier run of the harvest got for the same day and kind
PriorPoint(kind, ts) ==
    PyDict(<<Entry("timestamp", PyNum(ts)),
             Entry(BlockKey(kind),
                   IF kind \in {"swells", "spectra"} THEN Comps(1) ELSE MinMax)>>)
PriorPayload(kind) ==
    PyDict(<<Entry("data",
                   PyDict(<<Entry(kind, PyList(<<PriorPoint(kind, 1600),
                                                 PriorPoint(kind, 1650)>>))>>))>>)

\* the file that run left
PriorFile(kind) == WrittenFile(Flatten(kind, PriorPayload(kind)).rows)

\* the files a block of the loop can find at its path
OldFiles(kind) == {NoFile, PriorFile(kind)}

\* what the provider does to the default request of a block
DefaultScript(kind) == <<OkResponse(GoodPayload(kind))>>

\* the provider behaviours that leave the block's file as the default does
QuietScripts(kind) == {DefaultScript(kind), <<RateLimited, OkResponse(GoodPayload(kind))>>}

\* the provider behaviours that do not: no rows, a payload the flattener
\* chokes on, an error status, a transport failure, five 429s
FaultScripts(kind) ==
    {<<OkResponse(EmptyPayload)>>,
     <<OkResponse(BadPayload(kind))>>,
     <<Response(500, NoRetryAfter, FALSE, PyNone)>>,
     <<RateLimited, Response(404, NoRetryAfter, TRUE, PyDict(<<>>))>>,
     <<Response(0, NoRetryAfter, FALSE, PyNone)>>,
     <<RateLimited, RateLimited, RateLimited, RateLimited, RateLimited>>}

\* how the writing of the file goes: "ok", or an OSError from open ("open")
\* or from a write after it ("write")
WriteFaults == {"open", "write"}

Scripts(kind) == QuietScripts(kind) \cup FaultScripts(kind)

\* js = api.get_<kind>(...); rows = <Kind>CSV.flatten(js), and the file the
\* rows make: for each kind and provider behaviour, how the client call ends,
\* what flatten gives for its payload, and what a successful write leaves.
Fetched ==
    [kind \in KindSet |->
        [script \in Scripts(kind) |->
            LET r == RunGet(NewGet, script)
                fl == Flatten(kind, r.ret)
            IN  [get |-> r, fl |-> fl,
                 file |-> [old \in OldFiles(kind) |-> _write_dict_rows(fl.rows, old)]]]]

\* a block that opens its file for writing before it asks the provider: a
\* block that fails leaves the file emptied
BlockResult_open_first(day, kind, old, script, wr) ==
    LET r == Fetched[kind][script].get
        fl == Fetched[kind][script].fl
    IN  IF r.pc = "raised"
        THEN [what |-> "fetch_failed", err |-> r.err, file |-> TruncatedFile,
              failed |-> TRUE]
        ELSE IF fl.raised
        THEN [what |-> "flatten_failed", err |-> "AttributeError", file |-> TruncatedFile,
              failed |-> TRUE]
        ELSE IF fl.rows = <<>>
        THEN [what |-> "no_rows", err |-> "none", file |-> Fetched[kind][script].file[old],
              failed |-> FALSE]
        ELSE IF wr \in WriteFaults
        THEN [what |-> "write_failed", err |-> "OSError", file |-> TruncatedFile,
              failed |-> TRUE]
        ELSE [what |-> "wrote", err |-> "none", file |-> Fetched[kind][script].file[old],
              failed |-> FALSE]

\* One try/except block of the loop body for (day, kind): the client call,
\* flatten, write, and the except clause.  Gives the block's record, the
\* file it leaves and whether the except clause ran.
BlockResult(day, kind, old, script, wr) ==
    LET r == Fetched[kind][script].get
        fl == Fetched[kind][script].fl
    IN  IF r.pc = "raised"
        THEN [what |-> "fetch_failed", err |-> r.err, file |-> old, failed |-> TRUE]
        ELSE IF fl.raised
        THEN [what |-> "flatten_failed", err |-> "AttributeError", file |-> old,
              failed |-> TRUE]
        ELSE IF fl.rows = <<>>
        THEN [what |-> "no_rows", err |-> "none", file |-> Fetched[kind][script].file[old],
              failed |-> FALSE]
        ELSE IF wr = "open"
        THEN [what |-> "write_failed", err |-> "OSError", file |-> old, failed |-> TRUE]
        ELSE IF wr = "write"
        THEN [what |-> "write_failed", err |-> "OSError", file |-> TruncatedFile,
              failed |-> TRUE]
        ELSE [what |-> "wrote", err |-> "none", file |-> Fetched[kind][script].file[old],
              failed |-> FALSE]

HarvestInit ==
    /\ cfg \in [days : 0..MaxDays, subregion : BOOLEAN, rerun : BOOLEAN]
    /\ hpc = "probe"
    /\ cur = 1
    /\ kidx = 1
    /\ loopCalls = [p \in Pairs |-> 0]
    /\ probeCalls = 0
    /\ files = [p \in Pairs |-> IF cfg.rerun THEN PriorFile(p[2]) ELSE NoFile]
    /\ failed = {}
    /\ last = NoBlock
    /\ faults = 0
    /\ paced = <<>>
    /\ g = GetIdle
    /\ FlattenIdle
    /\ DriftIdle /\ AnalyzeIdle /\ NameIdle /\ AuthIdle

\* The metadata probe: api.get_surf(days=1, start=start_date) in its own
\* try/except, then the loop test.
Probe ==
    /\ hpc = "probe"
    /\ \E script \in Scripts("surf") :
          LET r == Fetched["surf"][script].get
          IN  last' = [day |-> 1, kind |-> "surf",
                       what |-> IF r.pc = "raised" THEN "probe_failed" ELSE "probe_ok",
                       err |-> r.err]
    /\ probeCalls' = probeCalls + 1
    /\ hpc' = IF InRange(cur) THEN "loop" ELSE "done"
    /\ UNCHANGED <<g, flattenVars, cfg, cur, kidx, loopCalls, files, failed,
                   faults, paced, toolVars>>

\* The next try/except block of the loop body.
FetchBlock ==
    /\ hpc = "loop"
    /\ kidx <= Len(Kinds)
    /\ Configured(Kinds[kidx])
    /\ LET kind == Kinds[kidx]
           pair == <<cur, kind>>
       IN  \E script \in Scripts(kind),
              wr \in {"ok"} \cup WriteFaults :
              \E b \in {BlockResult(cur, kind, files[pair], script, wr)},
                 quiet \in {(script \in QuietScripts(kind)) /\ (wr = "ok")} :
                  /\ IF quiet THEN TRUE ELSE faults < MaxFaults
                  /\ faults' = IF quiet THEN faults ELSE faults + 1
                  /\ loopCalls' = [loopCalls EXCEPT ![pair] = @ + 1]
                  /\ files' = [files EXCEPT ![pair] = b.file]
                  /\ failed' = IF b.failed THEN failed \cup {pair} ELSE failed
                  /\ last' = [day |-> cur, kind |-> kind, what |-> b.what, err |-> b.err]
                  /\ hpc' = IF b.failed THEN OnBlockFailure ELSE "loop"
    /\ kidx' = kidx + 1
    /\ UNCHANGED <<g, flattenVars, cfg, cur, probeCalls, paced, toolVars>>

\* a pause that grows with the failures of the day
PacingDelay_adaptive(day) ==
    SLEEP_BETWEEN_DAYS * (1 + Cardinality({p \in failed : p[1] = day}))

\* time.sleep(SLEEP_BETWEEN_DAYS) at the end of the body for a day
PacingDelay(day) == SLEEP_BETWEEN_DAYS

\* The end of the loop body: the conditions block skipped when no
\* subregion_id is given, the pacing sleep, cur += 1 and the loop test.
Pace ==
    /\ hpc = "loop"
    /\ IF kidx > Len(Kinds) THEN TRUE ELSE ~Configured(Kinds[kidx])
    /\ paced' = IF SLEEP_BETWEEN_DAYS > 0 THEN Append(paced, PacingDelay(cur)) ELSE paced
    /\ cur' = cur + 1
    /\ kidx' = 1
    /\ hpc' = IF InRange(cur + 1) THEN "loop" ELSE "done"
    /\ UNCHANGED <<g, flattenVars, cfg, loopCalls, probeCalls, files, failed,
                   last, faults, toolVars>>

Next == Probe \/ FetchBlock \/ Pace

Init == HarvestInit

Spec == Init /\ [][Next]_vars

\* The harvest is one sequential process: every step it takes ends (a GET
\* has a timeout, a sleep a length), so a run that can step does step.
FairSpec == Spec /\ WF_vars(Next)

(***************************************************************************)
(* Properties of SurflineAPI._get (ClientSpec).                            *)
(***************************************************************************)
AllRateLimited(h) == \A i \in 1..Len(h) : h[i] = 429
LastOf(q) == q[Len(q)]

\* C1: one _get call issues at most 5 GETs, and a call whose 5 GETs were all
\* answered 429 ends (after its last sleep) by raising the RuntimeError
\* "Too many 429 responses": it returns no payload.
C1_AtMostFiveThenRaise ==
    /\ g.gets <= 5
    /\ Len(g.hist) = g.gets
    /\ (g.gets = 5 /\ AllRateLimited(g.hist) /\ g.pc # "sleep")
          => (g.pc = "raised" /\ g.err = "RuntimeError" /\ g.ret = PyNone)
    /\ g.err = "RuntimeError" => (g.pc = "raised" /\ g.gets = 5)

C1_Witness ==
    g.pc = "raised" /\ g.err = "RuntimeError" /\ g.gets = 5 /\ AllRateLimited(g.hist)

IsFatalStatus(status) == status = 0 \/ (status # 429 /\ (status < 200 \/ status >= 300))

C4_LinearBackoff ==
    /\ \A i \in 1..Len(g.waits) :
          /\ g.waits[i].attempt = i
          /\ g.waits[i].hdr.form = "absent" => g.waits[i].wait = 5 * i
    /\ \A i, j \in 1..Len(g.waits) :
          (i < j /\ g.waits[i].hdr.form = "absent" /\ g.waits[j].hdr.form = "absent")
             => g.waits[i].wait < g.waits[j].wait

C4_Witness ==
    /\ Len(g.waits) = 5
    /\ \A i \in 1..5 : g.waits[i].hdr.form = "absent" /\ g.waits[i].wait = 5 * i
    /\ g.pc = "raised"

\* C5 (as claimed): a 429 that carries a Retry-After value is followed by a
\* sleep of exactly the delay the provider asked for, and the linear backoff is
\* used only when the header is absent.
C5_RetryAfterRespected ==
    \A i \in 1..Len(g.waits) :
       IF g.waits[i].hdr.form = "absent"
       THEN g.waits[i].wait = 5 * g.waits[i].attempt
       ELSE g.waits[i].wait = g.waits[i].hdr.secs

Sleeps == Len(SelectSeq(g.log, LAMBDA e : e = "SLEEP"))
RateLimits == Len(SelectSeq(g.hist, LAMBDA status : status = 429))

\* C28: within one _get call the sleeps are as many as the 429 responses
\* (one fewer while the sleep of the latest 429 is still to come), every 429
\* is followed by a sleep, and a call that gave up after five 429s has slept
\* five times, the last sleep being the last thing it did before the error.
C28_SleepPer429 ==
    /\ Sleeps = (IF g.pc = "sleep" THEN RateLimits - 1 ELSE RateLimits)
    /\ g.pc = "sleep" <=> (g.hist # <<>> /\ LastOf(g.hist) = 429 /\ LastOf(g.log) = "GET")
    /\ \A i \in 1..Len(g.log) : g.log[i] = (IF i % 2 = 1 THEN "GET" ELSE "SLEEP")
    /\ \A k \in 1..Len(g.hist) :
          (g.hist[k] = 429 /\ 2 * k <= Len(g.log)) => g.log[2 * k] = "SLEEP"
    /\ g.err = "RuntimeError" =>
          /\ g.pc = "raised"
          /\ RateLimits = 5 /\ Sleeps = 5
          /\ Len(g.log) = 10 /\ LastOf(g.log) = "SLEEP"

C28_Witness ==
    /\ g.pc = "raised" /\ g.err = "RuntimeError"
    /\ g.log = <<"GET", "SLEEP", "GET", "SLEEP", "GET", "SLEEP", "GET", "SLEEP",
                 "GET", "SLEEP">>
    /\ g.hist = <<429, 429, 429, 429, 429>>

(***************************************************************************)
(* Properties of the flatteners (FlattenSpec).                             *)
(***************************************************************************)
JsonData(json) == DictGet(json, "data", PyNone)

\* The payload has no data member at all.
NoDataObject(json) == json = PyNone \/ (IsDict(json) /\ ~HasKey(json, "data"))

\* The payload has a data object that holds no series for the kind: nothing
\* under the kind's key, and (for the flatteners that search further) no list
\* under any other key.
DataWithoutSeries(kind, json) ==
    /\ IsDict(json) /\ HasKey(json, "data") /\ IsDict(JsonData(json))
    /\ ~HasKey(JsonData(json), kind) \/ DictGet(JsonData(json), kind, PyNone) = PyNone
    /\ kind = "tides" \/ \A i \in 1..Len(JsonData(json).s) : ~IsList(JsonData(json).s[i])

SeriesMissing(kind, json) == NoDataObject(json) \/ DataWithoutSeries(kind, json)

C8_NeverRaises ==
    (fOut.called /\ (fJson = PyNone \/ IsDict(fJson))) => ~fOut.raised

\* The swells payloads whose series sits under "swells" and is well formed:
\* every point a dict, every component list a list of dicts.
SwellComps(point) ==
    IF HasKey(point, "swells") /\ IsList(DictGet(point, "swells", PyNone))
    THEN DictGet(point, "swells", PyNone).s
    ELSE <<>>

WellFormedSwells(json) ==
    /\ IsDict(json) /\ HasKey(json, "data") /\ IsDict(JsonData(json))
    /\ HasKey(JsonData(json), "swells")
    /\ IsList(DictGet(JsonData(json), "swells", PyNone))
    /\ \A i \in 1..Len(DictGet(JsonData(json), "swells", PyNone).s) :
          LET p == DictGet(JsonData(json), "swells", PyNone).s[i]
          IN  IsDict(p) /\ \A c \in 1..Len(SwellComps(p)) : IsDict(SwellComps(p)[c])

SwellPoints(json) == DictGet(JsonData(json), "swells", PyNone).s

RECURSIVE CappedTotal(_, _)
\* the number of components of the points ps, each point counted up to cap
CappedTotal(ps, cap) ==
    IF ps = <<>> THEN 0
    ELSE (IF Len(SwellComps(Head(ps))) > cap THEN cap ELSE Len(SwellComps(Head(ps))))
         + CappedTotal(Tail(ps), cap)

RECURSIVE IndexRun(_)
\* the component_index column the points ps give: 1..N for each, in order
IndexRun(ps) ==
    IF ps = <<>> THEN <<>>
    ELSE [i \in 1..Len(SwellComps(Head(ps))) |-> i] \o IndexRun(Tail(ps))

\* C9 (as claimed): a point with more than 6 components contributes the swell
\* fields of exactly 6 of them (indices 1..6), the rest being discarded.
C9_SixComponentsAtMost ==
    (fOut.called /\ fKind = "swells" /\ WellFormedSwells(fJson))
       => /\ ~fOut.raised
          /\ Len(fOut.rows) = CappedTotal(SwellPoints(fJson), 6)
          /\ \A i \in 1..Len(fOut.rows) : RowGet(fOut.rows[i], "component_index").n <= 6

\* C9 (amended): SwellsCSV.flatten emits one row for every component of every
\* point, numbered 1..N in source order, whatever N is: nothing is discarded
\* beyond the sixth.
C9_EveryComponentEmitted ==
    (fOut.called /\ fKind = "swells" /\ WellFormedSwells(fJson))
       => /\ ~fOut.raised
          /\ Len(fOut.rows) = Len(IndexRun(SwellPoints(fJson)))
          /\ \A i \in 1..Len(fOut.rows) :
                RowGet(fOut.rows[i], "component_index") = PyNum(IndexRun(SwellPoints(fJson))[i])

C9_Witness ==
    /\ fOut.called /\ fKind = "swells" /\ WellFormedSwells(fJson)
    /\ Len(SwellPoints(fJson)) = 1 /\ Len(SwellComps(SwellPoints(fJson)[1])) > 6
    /\ Len(fOut.rows) > 6
    /\ RowGet(fOut.rows[Len(fOut.rows)], "component_index").n = Len(fOut.rows)

\* The surf payloads whose series is one point holding only a timestamp and a
\* surf block {min, max}.
OnePointMinMax(json) ==
    /\ IsDict(json) /\ HasKey(json, "data") /\ IsDict(JsonData(json))
    /\ HasKey(JsonData(json), "surf")
    /\ IsList(DictGet(JsonData(json), "surf", PyNone))
    /\ Len(DictGet(JsonData(json), "surf", PyNone).s) = 1
    /\ LET p == DictGet(JsonData(json), "surf", PyNone).s[1]
       IN  /\ IsDict(p) /\ {p.s[i].k : i \in 1..Len(p.s)} = {"timestamp", "surf"}
           /\ IsDict(DictGet(p, "surf", PyNone))
           /\ {DictGet(p, "surf", PyNone).s[i].k :
                  i \in 1..Len(DictGet(p, "surf", PyNone).s)} = {"min", "max"}

ThePoint(json) == DictGet(JsonData(json), "surf", PyNone).s[1]

SourceValues(json, row) ==
    /\ RowGet(row, "timestamp") = DictGet(ThePoint(json), "timestamp", PyNone)
    /\ RowGet(row, "surf_min") = DictGet(DictGet(ThePoint(json), "surf", PyNone), "min", PyNone)
    /\ RowGet(row, "surf_max") = DictGet(DictGet(ThePoint(json), "surf", PyNone), "max", PyNone)

\* C10 (as claimed): such a payload flattens to one row whose keys are exactly
\* timestamp, surf_min and surf_max, with the source values.
C10_ThreeKeysOnly ==
    (fOut.called /\ fKind = "surf" /\ OnePointMinMax(fJson))
       => /\ ~fOut.raised /\ Len(fOut.rows) = 1
          /\ RowKeys(fOut.rows[1]) = {"timestamp", "surf_min", "surf_max"}
          /\ SourceValues(fJson, fOut.rows[1])

\* C10 (amended): such a payload flattens to one row whose keys are exactly
\* timestamp, surf_min, surf_max and surf_humanRelation: the first three hold
\* the source values, and surf_humanRelation, absent in the source, is null.
C10_FourKeys ==
    (fOut.called /\ fKind = "surf" /\ OnePointMinMax(fJson))
       => /\ ~fOut.raised /\ Len(fOut.rows) = 1
          /\ RowKeys(fOut.rows[1]) =
                {"timestamp", "surf_min", "surf_max", "surf_humanRelation"}
          /\ Len(fOut.rows[1]) = 4
          /\ SourceValues(fJson, fOut.rows[1])
          /\ RowGet(fOut.rows[1], "surf_humanRelation") = PyNone

C10_Witness ==
    /\ fOut.called /\ fKind = "surf" /\ OnePointMinMax(fJson)
    /\ Len(fOut.rows) = 1
    /\ RowGet(fOut.rows[1], "surf_min") = PyNum(21)
    /\ RowGet(fOut.rows[1], "surf_max") = PyNum(34)

\* The same payload with a timestamp given to every point that has none: the
\* points are the dicts in the lists of the data object.
StampPoint(p) ==
    IF IsDict(p) /\ ~HasKey(p, "timestamp")
    THEN [p EXCEPT !.s = <<Entry("timestamp", PyNum(1700))>> \o @]
    ELSE p
StampSeries(v) ==
    IF IsList(v) THEN [v EXCEPT !.s = [i \in 1..Len(v.s) |-> StampPoint(v.s[i])]] ELSE v
StampData(d) ==
    IF IsDict(d) THEN [d EXCEPT !.s = [i \in 1..Len(d.s) |-> StampSeries(d.s[i])]] ELSE d
Stamped(json) ==
    IF IsDict(json)
    THEN [json EXCEPT !.s = [i \in 1..Len(json.s) |->
                               IF json.s[i].k = "data" THEN StampData(json.s[i])
                               ELSE json.s[i]]]
    ELSE json

LacksTimestamp(json) == Stamped(json) # json

\* row is twin with the timestamp nulled
NulledTimestamp(row, twin) ==
    /\ RowGet(row, "timestamp") = PyNone
    /\ row = RowSet(twin, "timestamp", PyNone)

\* C19: for every flattener, a payload with points that have no timestamp
\* flattens as the same payload with the timestamps filled in does -- it
\* raises when that one raises and gives as many rows -- and each row is the
\* row of the filled-in payload, or that row with a null timestamp.
C19_NullTimestampEmitted ==
    (fOut.called /\ LacksTimestamp(fJson)) =>
        LET twin == Flatten(fKind, Stamped(fJson))
        IN  /\ fOut.raised = twin.raised
            /\ Len(fOut.rows) = Len(twin.rows)
            /\ \A i \in 1..Len(fOut.rows) :
                  \/ fOut.rows[i] = twin.rows[i]
                  \/ NulledTimestamp(fOut.rows[i], twin.rows[i])

C19_Witness ==
    /\ fOut.called /\ LacksTimestamp(fJson)
    /\ fKind = "swells"
    /\ Len(fOut.rows) = MaxComps
    /\ \A i \in 1..Len(fOut.rows) : RowGet(fOut.rows[i], "timestamp") = PyNone

\* where a key is first seen in the rows: the first row that has it, and its
\* place in that row
FirstRowWith(rows, key) == CHOOSE r \in 1..Len(rows) :
    /\ key \in RowKeys(rows[r])
    /\ \A q \in 1..(r - 1) : key \notin RowKeys(rows[q])
PlaceIn(row, key) == CHOOSE c \in 1..Len(row) : row[c].k = key
SeenBefore(rows, a, b) ==
    LET ra == FirstRowWith(rows, a)
        rb == FirstRowWith(rows, b)
    IN  ra < rb \/ (ra = rb /\ PlaceIn(rows[ra], a) < PlaceIn(rows[rb], b))

AllKeys(rows) == UNION {RowKeys(rows[r]) : r \in 1..Len(rows)}

\* C21: the header of a written file holds every key of its rows once, in
\* first-seen order; each row fills one line of as many cells as the header
\* has, a cell being the row's value under that column, or empty when the row
\* lacks the column (or holds None there); no row has a key outside the
\* header.
C21_HeaderIsUnion ==
    (fFile.written /\ fOut.rows # <<>>) =>
        LET names == fFile.file.fieldnames
            rows == fOut.rows
            lines == fFile.file.lines
        IN  /\ fFile.file.exists
            /\ {names[i] : i \in 1..Len(names)} = AllKeys(rows)
            /\ \A i \in 1..Len(names) : \A j \in (i + 1)..Len(names) :
                  names[i] # names[j] /\ SeenBefore(rows, names[i], names[j])
            /\ Len(lines) = Len(rows)
            /\ \A r \in 1..Len(rows) :
                  /\ Len(lines[r]) = Len(names)
                  /\ RowKeys(rows[r]) \subseteq {names[i] : i \in 1..Len(names)}
                  /\ \A c \in 1..Len(names) :
                        IF names[c] \in RowKeys(rows[r])
                        THEN \/ lines[r][c] = RowGet(rows[r], names[c])
                             \/ (RowGet(rows[r], names[c]) = PyNone /\ lines[r][c] = PyStr(0))
                        ELSE lines[r][c] = PyStr(0)

C21_Witness ==
    /\ fFile.written /\ fFile.file.exists
    /\ Len(fOut.rows) = 2
    /\ RowKeys(fOut.rows[1]) # RowKeys(fOut.rows[2])
    /\ \E c \in 1..Len(fFile.file.fieldnames) :
          /\ fFile.file.fieldnames[c] \notin RowKeys(fOut.rows[1])
          /\ fFile.file.lines[1][c] = PyStr(0)
          /\ fFile.file.lines[2][c] # PyStr(0)

\* The series the fallback order names in a data object: what is under the
\* kind's key, else what is under the model key (rating, wind), else the
\* first list-valued entry -- the first of them that is not empty.
Located(kind, data) ==
    PyOr(DictGet(data, kind, PyNone),
         IF kind \in {"rating", "wind"}
         THEN PyOr(DictGet(data, ModelKey(kind), PyNone), _first_list_in_data(data))
         ELSE _first_list_in_data(data))

UnderOwnKey(kind, series) ==
    PyDict(<<Entry("data", PyDict(<<Entry(kind, series)>>))>>)

HasDataObject(json) == IsDict(json) /\ HasKey(json, "data") /\ IsDict(JsonData(json))

\* C22: each of the eight flatteners treats a payload as it treats the
\* payload that holds, under the kind's own key, the series the fallback
\* order names.
C22_FallbackOrder ==
    (fOut.called /\ HasDataObject(fJson)) =>
        LET same == Flatten(fKind, UnderOwnKey(fKind, Located(fKind, JsonData(fJson))))
        IN  fOut.raised = same.raised /\ fOut.rows = same.rows

\* the cells of the rows flatten returned
Cells ==
    UNION {{fOut.rows[r][c] : c \in 1..Len(fOut.rows[r])} : r \in 1..Len(fOut.rows)}
IsPrimitive(cell) == cell.t \in {"str", "num", "bool", "none"}

\* the keys a flattener fills straight from the point, without a test of the
\* value's type
DirectKeys(kind) ==
    CASE kind = "surf" -> {"timestamp", "surf_min", "surf_max", "surf_humanRelation"}
      [] kind = "rating" -> {"timestamp", "rating_value"}
      [] kind = "tides" -> {"timestamp", "type", "height"}
      [] OTHER -> {"timestamp"}

\* C23 as stated: every cell of every emitted row is a primitive.
C23_NoNestedCell ==
    fOut.called => \A cell \in Cells : IsPrimitive(cell)

\* C23: every cell that comes through _flatten_simple_fields (the plain
\* fields of a point, the prefixed fields of a block, component or bin) is a
\* primitive; a nested container can sit only in a cell the flattener copies
\* straight from the payload: timestamp, surf_min, surf_max,
\* surf_humanRelation, rating_value, and type and height of a tide.
C23_NestedOnlyInDirectCells ==
    fOut.called =>
        \A cell \in Cells : IsPrimitive(cell) \/ cell.k \in DirectKeys(fKind)

C23_Witness ==
    /\ fOut.called /\ fKind = "rating" /\ Len(fOut.rows) = 1
    /\ "rating_value" \in RowKeys(fOut.rows[1])
    /\ IsList(RowGet(fOut.rows[1], "rating_value"))
    /\ RowGet(fOut.rows[1], "timestamp") = PyNum(1700)
    /\ "utcOffset" \in RowKeys(fOut.rows[1])
    /\ "rating" \notin RowKeys(fOut.rows[1])

PerPointKinds == {"surf", "rating", "sunlight", "wind", "tides", "conditions"}

\* the elements of the series a per-point flattener loops over
SeriesItems(kind, json) ==
    LoopItems(IF kind = "tides"
              THEN DictGet(JsonData(json), "tides", PyNone)
              ELSE Located(kind, JsonData(json)))

\* the rows a flattener gives for the series of the one element item
AloneRows(kind, item) == Flatten(kind, UnderOwnKey(kind, PyList(<<item>>))).rows

\* C25: when a per-point flattener returns, it has emitted one row for each
\* element of the series, in series order -- the r-th row is the row the
\* r-th element gives alone -- also when two elements have the same
\* timestamp or are equal.
C25_OneRowPerPoint ==
    (fOut.called /\ ~fOut.raised /\ fKind \in PerPointKinds /\ HasDataObject(fJson)) =>
        LET items == SeriesItems(fKind, fJson)
        IN  /\ Len(fOut.rows) = Len(items)
            /\ \A r \in 1..Len(items) : <<fOut.rows[r]>> = AloneRows(fKind, items[r])

C25_Witness ==
    /\ fOut.called /\ ~fOut.raised /\ fKind = "wind" /\ HasDataObject(fJson)
    /\ Len(SeriesItems(fKind, fJson)) = 2
    /\ SeriesItems(fKind, fJson)[1] = SeriesItems(fKind, fJson)[2]
    /\ Len(fOut.rows) = 2
    /\ fOut.rows[1] = fOut.rows[2]
    /\ RowGet(fOut.rows[1], "timestamp") = PyNum(1700)

(***************************************************************************)
(* Properties of harvest_forecasts_for_range (Spec).                       *)
(***************************************************************************)
\* the (day, kind) pairs the run is asked for
Wanted == {p \in Pairs : InRange(p[1]) /\ Configured(p[2])}

\* the loop has gone past the block of pair p
Passed(p) ==
    \/ hpc = "done"
    \/ hpc = "loop" /\ (p[1] < cur \/ (p[1] = cur /\ KindIndex(p[2]) < kidx))

\* the run is over, past end_date, with every wanted pair attempted
Completed ==
    hpc = "done" /\ cur = cfg.days + 1 /\ \A p \in Wanted : loopCalls[p] >= 1

\* C2: whatever the earlier blocks did (HTTP error, transport error, five
\* 429s, a flatten or write failure), the block of every pair the loop has
\* gone past was attempted, and the run goes on to the end of the date range,
\* where every wanted pair has been attempted.
C2_BatchCompletes ==
    /\ [](\A p \in Wanted : Passed(p) => loopCalls[p] >= 1)
    /\ <>Completed

C2_Witness ==
    /\ Completed /\ cfg.days = 2 /\ cfg.subregion
    /\ <<1, "surf">> \in failed
    /\ last.what = "wrote" /\ last.day = 2

\* every client invocation of the run that asks for pair p
Requests(p) == loopCalls[p] + (IF p = <<1, "surf">> THEN probeCalls ELSE 0)

\* C6 (as claimed): over the run the client is invoked exactly once per wanted
\* (day, kind) pair.
C6_OncePerPair ==
    hpc = "done" => \A p \in Wanted : Requests(p) = 1

\* C6 (amended): the loop invokes the client exactly once per wanted pair --
\* none skipped, none twice, none outside the range or the configured kinds --
\* and, besides, the run starts with one metadata probe that requests the
\* surf series of start_date, so that series is requested twice when the
\* range is not empty.
C6_OncePerPairPlusProbe ==
    /\ \A p \in Pairs :
          loopCalls[p] = (IF p \in Wanted /\ Passed(p) THEN 1 ELSE 0)
    /\ probeCalls = (IF hpc = "probe" THEN 0 ELSE 1)
    /\ (hpc = "done" /\ cfg.days >= 1) => Requests(<<1, "surf">>) = 2

C6_Witness ==
    /\ hpc = "done" /\ cfg.days = 2 /\ cfg.subregion
    /\ \A p \in Pairs : loopCalls[p] = 1
    /\ probeCalls = 1

(***************************************************************************)
(* compute_24h_forecast_drift of analyze_history.py.  A frame is the       *)
(* sequence of its rows; a time is a number of seconds since the epoch     *)
(* (UTC); surf_mid is a float, NaN when surf_min or surf_max is missing,   *)
(* and otherwise counted in tenths of a foot.                              *)
(***************************************************************************)
MaxRows == 4        \* longest frame handed to the drift join

DAY == 86400

NaN == [nan |-> TRUE, v |-> 0]
Float(x) == [nan |-> FALSE, v |-> x]
FSub(a, b) == IF a.nan \/ b.nan THEN NaN ELSE Float(a.v - b.v)
FAbs(a) == IF a.nan THEN NaN ELSE Float(IF a.v < 0 THEN 0 - a.v ELSE a.v)

Row(issue, valid, mid) == [issue_date |-> issue, valid_time |-> valid, surf_mid |-> mid]

\* a base frame that keeps every row
DropNa_keep_all(frame) == [i \in 1..Len(frame) |-> i]

\* df[["issue_date", "valid_time", "surf_mid"]].dropna(): the positions of
\* the rows kept, in order
DropNa(frame) ==
    SelectSeq([i \in 1..Len(frame) |-> i], LAMBDA i : ~frame[i].surf_mid.nan)

\* left["next_issue_date"] with two days added
NextIssueDate_two_days(row) == row.issue_date + 2 * DAY

\* left["next_issue_date"] = left["issue_date"] + pd.Timedelta(days=1)
NextIssueDate(row) == row.issue_date + DAY

\* the merge keys: left_on = [valid_time, next_issue_date],
\* right_on = [valid_time, issue_date]
KeysMatch(l, r) ==
    l.valid_time = r.valid_time /\ NextIssueDate(l) = r.issue_date

\* merged["error"] with the operands exchanged
DriftError_reversed(l, r) == FSub(l.surf_mid, r.surf_mid)

\* merged["error"] = merged["surf_mid_Dplus1"] - merged["surf_mid_D"]
DriftError(l, r) == FSub(r.surf_mid, l.surf_mid)

\* One row of merged, for the left row at position i and the right row at
\* position j of the frame (left and right record where it came from).
MergedRow(frame, i, j) ==
    [left |-> i, right |-> j,
     issue_date_x |-> frame[i].issue_date,
     valid_time |-> frame[i].valid_time,
     surf_mid_D |-> frame[i].surf_mid,
     next_issue_date |-> NextIssueDate(frame[i]),
     issue_date_y |-> frame[j].issue_date,
     surf_mid_Dplus1 |-> frame[j].surf_mid,
     error |-> DriftError(frame[i], frame[j]),
     abs_error |-> FAbs(DriftError(frame[i], frame[j])),
     hour |-> (frame[i].valid_time \div 3600) % 24]

\* the right rows a left row joins, keeping only the last of them
JoinOne_last_wins(frame, base, i) ==
    LET hits == SelectSeq(base, LAMBDA j : KeysMatch(frame[i], frame[j]))
    IN  IF hits = <<>> THEN <<>> ELSE <<MergedRow(frame, i, hits[Len(hits)])>>

\* the rows of merged a left row gives: one per right row with its keys
JoinOne(frame, base, i) ==
    LET hits == SelectSeq(base, LAMBDA j : KeysMatch(frame[i], frame[j]))
    IN  [n \in 1..Len(hits) |-> MergedRow(frame, i, hits[n])]

RECURSIVE Merge(_, _, _)
\* pd.merge(left, right, ..., how="inner")
Merge(frame, base, lefts) ==
    IF lefts = <<>> THEN <<>>
    ELSE JoinOne(frame, base, Head(lefts)) \o Merge(frame, base, Tail(lefts))

compute_24h_forecast_drift(frame) ==
    LET base == DropNa(frame) IN Merge(frame, base, base)

(***************************************************************************)
(* DriftSpec: the drift join applied to one frame.                         *)
(***************************************************************************)
SixAM == 2 * DAY + 6 * 3600
IssueDates == {0, DAY, 2 * DAY, 3 * DAY}
ValidTimes == {SixAM, SixAM + 1}
SurfMids == {NaN, Float(30), Float(35)}

Rows == {Row(i, t, m) : i \in IssueDates, t \in ValidTimes, m \in SurfMids}

\* read_forecast_folder concatenates the files in sorted order, so the rows
\* of a frame come by issue date
ByIssueDate(frame) ==
    \A i \in 1..Len(frame) : \A j \in i..Len(frame) :
        frame[i].issue_date <= frame[j].issue_date

FramesOfLen(n) == {f \in [1..n -> Rows] : ByIssueDate(f)}

DriftInit ==
    /\ \E n \in 0..MaxRows : df \in FramesOfLen(n)
    /\ drift = NoDrift
    /\ g = GetIdle
    /\ FlattenIdle
    /\ HarvestIdle
    /\ AnalyzeIdle /\ NameIdle /\ AuthIdle

ComputeDrift ==
    /\ ~drift.called
    /\ drift' = [called |-> TRUE, pairs |-> compute_24h_forecast_drift(df)]
    /\ UNCHANGED <<g, flattenVars, harvestVars, df, an, nm, au>>

DriftNext == ComputeDrift

DriftSpec == DriftInit /\ [][DriftNext]_vars

(***************************************************************************)
(* File names.  A name is the sequence of its characters; a date is a      *)
(* record of year, month and day.                                          *)
(***************************************************************************)
Digits == <<"0", "1", "2", "3", "4", "5", "6", "7", "8", "9">>
IsDigit(c) == \E n \in 1..10 : Digits[n] = c
DigitVal(c) == (CHOOSE n \in 1..10 : Digits[n] = c) - 1

\* "%02d" and "%04d"
Fmt2(n) == <<Digits[((n \div 10) % 10) + 1], Digits[(n % 10) + 1]>>
Fmt4(n) == Fmt2(n \div 100) \o Fmt2(n % 100)

\* int(s) of a string of digits
RECURSIVE IntOf(_)
IntOf(cs) ==
    IF cs = <<>> THEN 0 ELSE 10 * IntOf(SubSeq(cs, 1, Len(cs) - 1)) + DigitVal(cs[Len(cs)])

Date(y, m, d) == [year |-> y, month |-> m, day |-> d]

IsLeap(y) == (y % 4 = 0 /\ y % 100 # 0) \/ y % 400 = 0
DaysInMonth(y, m) ==
    CASE m \in {4, 6, 9, 11} -> 30
      [] m = 2 -> IF IsLeap(y) THEN 29 ELSE 28
      [] OTHER -> 31
IsDate(y, m, d) == m \in 1..12 /\ d >= 1 /\ d <= DaysInMonth(y, m)

\* cur.strftime("%Y%m%d")
StrfYmd8(date) == Fmt4(date.year) \o Fmt2(date.month) \o Fmt2(date.day)
\* datetime.now().strftime("%y%m%d")
StrfYmd6(date) == Fmt2(date.year % 100) \o Fmt2(date.month) \o Fmt2(date.day)

UNDERSCORE_SURF == <<"_", "s", "u", "r", "f", "_">>
FORECAST_WAVE == <<"f", "o", "r", "e", "c", "a", "s", "t", "_", "w", "a", "v", "e", "_">>
DOT_CSV == <<".", "c", "s", "v">>

\* f"{spot_slug}_surf_{date_tag}.csv", date_tag = cur.strftime("%Y%m%d")
HarvestSurfName(spot_slug, date) ==
    spot_slug \o UNDERSCORE_SURF \o StrfYmd8(date) \o DOT_CSV

\* the file name of OUT_PATH = f"forecasts/forecast_{COMMAND}_{date_str}.csv"
\* with COMMAND = "wave" and date_str = datetime.now().strftime("%y%m%d")
OutPathName(date) == FORECAST_WAVE \o StrfYmd6(date) \o DOT_CSV

ParseRaised(err) == [raised |-> TRUE, err |-> err, date |-> Date(0, 0, 0)]

\* re.search(r"forecast_wave_(\d{6})\.csv$", filename): the pattern is 24
\* characters long and anchored at the end of the name
NameMatches(name) ==
    /\ Len(name) >= 24
    /\ SubSeq(name, Len(name) - 23, Len(name) - 10) = FORECAST_WAVE
    /\ \A i \in (Len(name) - 9)..(Len(name) - 4) : IsDigit(name[i])
    /\ SubSeq(name, Len(name) - 3, Len(name)) = DOT_CSV

\* _parse_issue_date_from_name: the date at UTC midnight, or ValueError
_parse_issue_date_from_name(name) ==
    IF ~NameMatches(name) THEN ParseRaised("ValueError")
    ELSE LET tag == SubSeq(name, Len(name) - 9, Len(name) - 4)
             year == 2000 + IntOf(SubSeq(tag, 1, 2))
             mo == IntOf(SubSeq(tag, 3, 4))
             d == IntOf(SubSeq(tag, 5, 6))
         IN  IF IsDate(year, mo, d)
             THEN [raised |-> FALSE, err |-> "none", date |-> Date(year, mo, d)]
             ELSE ParseRaised("ValueError")

(***************************************************************************)
(* NameSpec: one file name written for a date by one of the two writers    *)
(* (harvest_forecasts_for_range, surfline_hb_northside.py), then parsed.   *)
(***************************************************************************)
Years == {2024, 2025}
DaysOfMonth == {1, 9, 28, 29, 31}
Dates == {Date(y, m, d) : y \in Years, m \in 1..12, d \in DaysOfMonth}
ValidDates == {dt \in Dates : IsDate(dt.year, dt.month, dt.day)}

Slugs == {<<"H", "B">>, FORECAST_WAVE \o <<"9">>}

NameInit ==
    /\ nm \in {[pc |-> "write", writer |-> w, slug |-> sl, date |-> dt,
                name |-> <<>>, parse |-> ParseRaised("none")] :
                  w \in {"harvest", "northside"}, sl \in Slugs, dt \in ValidDates}
    /\ g = GetIdle
    /\ FlattenIdle
    /\ HarvestIdle
    /\ DriftIdle /\ AnalyzeIdle /\ AuthIdle

WriteName ==
    /\ nm.pc = "write"
    /\ nm' = [nm EXCEPT !.pc = "parse",
                        !.name = IF nm.writer = "harvest"
                                 THEN HarvestSurfName(nm.slug, nm.date)
                                 ELSE OutPathName(nm.date)]
    /\ UNCHANGED <<g, flattenVars, harvestVars, driftVars, an, au>>

ParseName ==
    /\ nm.pc = "parse"
    /\ nm' = [nm EXCEPT !.pc = "done", !.parse = _parse_issue_date_from_name(nm.name)]
    /\ UNCHANGED <<g, flattenVars, harvestVars, driftVars, an, au>>

NameNext == WriteName \/ ParseName

NameSpec == NameInit /\ [][NameNext]_vars

(***************************************************************************)
(* analyze_history.py as a script: read_forecast_folder, then              *)
(* compute_24h_forecast_drift, then the report of the __main__ block.      *)
(* A file is its name and its lines; of a line the model keeps the cells   *)
(* of the columns timestamp, surf_min and surf_max.  Surf heights are in   *)
(* tenths of a foot in a file, and surf_mid is in twentieths.              *)
(***************************************************************************)
MaxLines == 2

\* days from 1970-01-01 to a date of the proleptic Gregorian calendar
DaysFromCivil(y, m, d) ==
    LET yy == IF m <= 2 THEN y - 1 ELSE y
        era == yy \div 400
        yoe == yy - era * 400
        mp == IF m > 2 THEN m - 3 ELSE m + 9
        doy == (153 * mp + 2) \div 5 + d - 1
        doe == yoe * 365 + yoe \div 4 - yoe \div 100 + doy
    IN  era * 146097 + doe - 719468

\* pd.Timestamp(year=..., month=..., day=..., tz="UTC"), in seconds
Timestamp(date) == DaysFromCivil(date.year, date.month, date.day) * DAY

Blank == [k |-> "blank", v |-> 0, s |-> ""]
Num(x) == [k |-> "num", v |-> x, s |-> ""]
Text(s) == [k |-> "text", v |-> 0, s |-> s]

Line(ts, mn, mx) == [timestamp |-> ts, surf_min |-> mn, surf_max |-> mx]
HeaderLine == Line(Text("timestamp"), Text("surf_min"), Text("surf_max"))

\* pd.to_numeric(column, errors="coerce") of one cell
ToNumeric(cell) == IF cell.k = "num" THEN Float(cell.v) ELSE NaN

\* (to_numeric(surf_min) + to_numeric(surf_max)) / 2.0
SurfMid(line) ==
    LET mn == ToNumeric(line.surf_min)
        mx == ToNumeric(line.surf_max)
    IN  IF mn.nan \/ mx.nan THEN NaN ELSE Float(mn.v + mx.v)

ReadRaised(err) == [raised |-> TRUE, err |-> err, frame |-> <<>>]
ReadOk(frame) == [raised |-> FALSE, err |-> "none", frame |-> frame]

\* the rows of one file: the lines whose timestamp is a number, each with
\* valid_time, issue_date and surf_mid
FileRows(issue, lines) ==
    LET kept == SelectSeq(lines, LAMBDA ln : ln.timestamp.k = "num")
    IN  [i \in 1..Len(kept) |-> Row(issue, kept[i].timestamp.v, SurfMid(kept[i]))]

\* the body of the loop of read_forecast_folder for one file
ReadFile(file) ==
    LET parsed == _parse_issue_date_from_name(file.name)
        lines == file.lines
        rest == Tail(lines)
    IN  IF parsed.raised THEN ReadRaised(parsed.err)
        ELSE IF lines = <<>> THEN ReadRaised("EmptyDataError")
        ELSE IF lines[1].timestamp = Text("timestamp")
        THEN IF \E i \in 1..Len(rest) :
                    \/ rest[i].surf_min.k = "text"
                    \/ rest[i].surf_max.k = "text"
                    \/ rest[i].timestamp.k # "num"
             THEN ReadRaised("ValueError")
             ELSE ReadOk(FileRows(Timestamp(parsed.date), rest))
        ELSE ReadOk(FileRows(Timestamp(parsed.date), lines))

RECURSIVE ReadAll(_, _)
\* the loop over the sorted files and pd.concat(all_rows)
ReadAll(files_, acc) ==
    IF files_ = <<>> THEN ReadOk(acc)
    ELSE LET r == ReadFile(Head(files_))
         IN  IF r.raised THEN r ELSE ReadAll(Tail(files_), acc \o r.frame)

\* read_forecast_folder without the check for an empty file list
read_forecast_folder_unchecked(folder) == ReadAll(folder, <<>>)

read_forecast_folder(folder) ==
    IF folder = <<>> THEN ReadRaised("FileNotFoundError")
    ELSE ReadAll(folder, <<>>)

\* the __main__ block's report on the drift table
DriftReport(pairs) == IF pairs # <<>> THEN "mae" ELSE "no_overlap"

(***************************************************************************)
(* AnalyzeSpec: the script run on one folder.                              *)
(***************************************************************************)
ValidSecond == Timestamp(Date(2025, 1, 3)) + 6 * 3600
Lines ==
    {HeaderLine, Line(Num(ValidSecond), Num(20), Num(40)),
     Line(Num(ValidSecond), Num(30), Num(40)), Line(Num(ValidSecond), Blank, Num(40)),
     Line(Blank, Num(20), Num(40))}
Contents == UNION {[1..n -> Lines] : n \in 0..MaxLines}

Day1Name == OutPathName(Date(2025, 1, 1))
Day2Name == OutPathName(Date(2025, 1, 2))
LatestName == FORECAST_WAVE \o <<"l", "a", "t", "e", "s", "t">> \o DOT_CSV

Present == {<<c>> : c \in Contents}
FileOf(name, opt) == IF opt = <<>> THEN <<>> ELSE <<[name |-> name, lines |-> opt[1]]>>

\* sorted(folder.glob("forecast_wave_*.csv")): digits sort before letters
Folders ==
    {FileOf(Day1Name, o1) \o FileOf(Day2Name, o2) \o FileOf(LatestName, o3) :
        o1 \in {<<>>} \cup Present, o2 \in {<<>>} \cup Present, o3 \in {<<>>, <<<<>>>>}}

AnalyzeInit ==
    /\ an \in {[pc |-> "read", folder |-> fo, err |-> "none", report |-> "none"] :
                 fo \in Folders}
    /\ df = <<>>
    /\ drift = NoDrift
    /\ g = GetIdle
    /\ FlattenIdle
    /\ HarvestIdle
    /\ NameIdle /\ AuthIdle

ReadFolder ==
    /\ an.pc = "read"
    /\ \E r \in {read_forecast_folder(an.folder)} :
         IF r.raised
         THEN an' = [an EXCEPT !.pc = "raised", !.err = r.err] /\ df' = df
         ELSE an' = [an EXCEPT !.pc = "drift"] /\ df' = r.frame
    /\ UNCHANGED <<g, flattenVars, harvestVars, drift, nm, au>>

AnalyzeDrift ==
    /\ an.pc = "drift"
    /\ drift' = [called |-> TRUE, pairs |-> compute_24h_forecast_drift(df)]
    /\ an' = [an EXCEPT !.pc = "report"]
    /\ UNCHANGED <<g, flattenVars, harvestVars, df, nm, au>>

ReportDrift ==
    /\ an.pc = "report"
    /\ an' = [an EXCEPT !.pc = "done", !.report = DriftReport(drift.pairs)]
    /\ UNCHANGED <<g, flattenVars, harvestVars, driftVars, nm, au>>

AnalyzeNext == ReadFolder \/ AnalyzeDrift \/ ReportDrift

AnalyzeSpec == AnalyzeInit /\ [][AnalyzeNext]_vars

(***************************************************************************)
(* Credentials: ensure_logged_in_or_token on a fresh SurflineAPI, then the *)
(* token a request of the client carries.  A token is a Python value:      *)
(* None, the empty string PyStr(0), or a non-empty string.                 *)
(***************************************************************************)
EnvToken == PyStr(1)
LoginToken == PyStr(2)
LoginTokenShort == PyStr(3)
CallToken == PyStr(4)
UserName == PyStr(5)
Password == PyStr(6)

AuthFailed(err) == [raised |-> TRUE, err |-> err, token |-> PyNone]

\* SurflineAPI.get_access_token, given what the login endpoint answers
get_access_token(resp) ==
    IF resp.status = 0 THEN AuthFailed("transport")
    ELSE IF RaisesHTTPError(resp.status) THEN AuthFailed("HTTPError")
    ELSE IF ~resp.json_ok THEN AuthFailed("ValueError")
    ELSE IF ~IsDict(resp.body) THEN AuthFailed("AttributeError")
    ELSE LET token == PyOr(DictGet(resp.body, "accessToken", PyNone),
                           DictGet(resp.body, "access_token", PyNone))
         IN  IF ~Truthy(token) THEN AuthFailed("RuntimeError")
             ELSE [raised |-> FALSE, err |-> "none", token |-> token]

\* an except clause for HTTPError only
Caught_http_only(err) == err = "HTTPError"

\* except Exception as e: every error a login raises is an Exception
Caught(err) == err \in {"transport", "HTTPError", "ValueError", "AttributeError",
                        "RuntimeError"}

AuthResult(stored, attempts, outcome, raised) ==
    [stored |-> stored, attempts |-> attempts, outcome |-> outcome, raised |-> raised]

\* the login loop without the return after a success: both attempts are
\* made, and a later token replaces an earlier one
TryLogins_no_return(resps, i, attempts) ==
    LET t1 == get_access_token(resps[1])
        t2 == get_access_token(resps[2])
        mark(t) == IF t.raised THEN t.err ELSE "ok"
    IN  AuthResult(IF ~t2.raised THEN t2.token ELSE IF ~t1.raised THEN t1.token ELSE PyNone,
                   <<mark(t1), mark(t2)>>,
                   IF t1.raised /\ t2.raised THEN "login_failed" ELSE "login",
                   FALSE)

RECURSIVE TryLogins(_, _, _)
\* for short in (False, True): try: api.login(...); return / except Exception
\* and, after the loop, the warning and return
TryLogins(resps, i, attempts) ==
    IF i > Len(resps) THEN AuthResult(PyNone, attempts, "login_failed", FALSE)
    ELSE LET t == get_access_token(resps[i])
         IN  IF ~t.raised
             THEN AuthResult(t.token, Append(attempts, "ok"), "login", FALSE)
             ELSE IF Caught(t.err)
             THEN TryLogins(resps, i + 1, Append(attempts, t.err))
             ELSE AuthResult(PyNone, Append(attempts, t.err), "aborted", TRUE)

\* ensure_logged_in_or_token(api) for a fresh api (api._access_token None);
\* resps are the answers of the login endpoint to the long-lived and the
\* short-lived attempt
ensure_logged_in_or_token(env, resps) ==
    IF Truthy(env.token) THEN AuthResult(env.token, <<>>, "env_token", FALSE)
    ELSE IF Truthy(env.user) /\ Truthy(env.pwd) THEN TryLogins(resps, 1, <<>>)
    ELSE AuthResult(PyNone, <<>>, "anonymous", FALSE)

\* a resolution that prefers the stored token
_resolve_token_stored_first(access_token, stored) == PyOr(stored, access_token)

\* SurflineAPI._resolve_token: access_token or self._access_token
_resolve_token(access_token, stored) == PyOr(access_token, stored)

\* params.setdefault(key, v)
SetDefault(params, key, v) ==
    IF HasKey(params, key) THEN params ELSE PyDict(RowSet(params.s, key, v))

\* the head of _get: the params the GET is sent with
RequestParams(params, access_token, stored) ==
    LET token == _resolve_token(access_token, stored)
    IN  IF Truthy(token)
        THEN SetDefault(params, "accessToken", token)
        ELSE params

(***************************************************************************)
(* AuthSpec: one resolution of the credentials, then one request.          *)
(***************************************************************************)
Envs ==
    [token : {PyNone, PyStr(0), EnvToken},
     user : {PyNone, PyStr(0), UserName},
     pwd : {PyNone, Password}]

TokenBody(key, token) == PyDict(<<Entry(key, token)>>)

LoginResponses(short) ==
    LET tok == IF short THEN LoginTokenShort ELSE LoginToken
    IN  {Response(0, NoRetryAfter, FALSE, PyNone),
         Response(401, NoRetryAfter, TRUE, PyDict(<<>>)),
         Response(200, NoRetryAfter, FALSE, PyNone),
         Response(200, NoRetryAfter, TRUE, PyList(<<>>)),
         Response(200, NoRetryAfter, TRUE, PyDict(<<>>)),
         Response(200, NoRetryAfter, TRUE, TokenBody("accessToken", PyStr(0))),
         Response(200, NoRetryAfter, TRUE, TokenBody("accessToken", tok)),
         Response(200, NoRetryAfter, TRUE, TokenBody("access_token", tok))}

\* the params a get_* method builds before it calls _get
SpotParams == PyDict(<<Entry("spotId", PyStr(7)), Entry("days", PyNum(1))>>)

CallTokens == {PyNone, PyStr(0), CallToken}

MaxRequests == 2

\* how the provider answers a request: at once, after a 429, with an error
\* status, or with 429s only
RequestScripts ==
    {<<OkResponse(PyDict(<<>>))>>, <<RateLimited, OkResponse(PyDict(<<>>))>>,
     <<Response(500, NoRetryAfter, FALSE, PyNone)>>,
     <<RateLimited, RateLimited, RateLimited, RateLimited, RateLimited>>}

AuthInit ==
    /\ au \in {[pc |-> "auth", env |-> e, stored |-> PyNone, attempts |-> <<>>,
                outcome |-> "none", raised |-> FALSE, explicit |-> PyNone,
                params |-> PyNone, seen |-> <<>>] : e \in Envs}
    /\ g = GetIdle
    /\ FlattenIdle
    /\ HarvestIdle
    /\ DriftIdle /\ AnalyzeIdle /\ NameIdle

EnsureLoggedIn ==
    /\ au.pc = "auth"
    /\ \E r1 \in LoginResponses(FALSE), r2 \in LoginResponses(TRUE) :
         \E a \in {ensure_logged_in_or_token(au.env, <<r1, r2>>)} :
            au' = [au EXCEPT !.pc = IF a.raised THEN "aborted" ELSE "ready",
                             !.stored = a.stored,
                             !.attempts = a.attempts,
                             !.outcome = a.outcome,
                             !.raised = a.raised]
    /\ UNCHANGED <<g, flattenVars, harvestVars, driftVars, an, nm>>

\* One request of the client, of any outcome: _get reads the stored token
\* and assigns nothing to it.  seen keeps, per request, the stored token it
\* read and how the call ended.
SendRequest ==
    /\ au.pc \in {"ready", "sent"}
    /\ Len(au.seen) < MaxRequests
    /\ \E access_token \in CallTokens, script \in RequestScripts :
         \E r \in {RunGet(NewGet, script)} :
            au' = [au EXCEPT !.pc = "sent",
                             !.explicit = access_token,
                             !.params = RequestParams(SpotParams, access_token, au.stored),
                             !.seen = Append(@, [stored |-> au.stored, outcome |-> r.pc,
                                                 gets |-> r.gets])]
    /\ UNCHANGED <<g, flattenVars, harvestVars, driftVars, an, nm>>

AuthNext == EnsureLoggedIn \/ SendRequest

AuthSpec == AuthInit /\ [][AuthNext]_vars

(***************************************************************************)
(* WaveCSV.flatten of surfline_api_class.py: one row per point, with the   *)
(* surf range and the first six swell components side by side.             *)
(***************************************************************************)
\* f"swell{idx}_{name}"
SwellKey(idx, name) == "swell" \o Digits[idx + 1] \o "_" \o name

\* the three cells of one component
WaveCSV_component(idx, swell) ==
    <<Entry(SwellKey(idx, "height_m"), DictGet(swell, "height", PyNone)),
      Entry(SwellKey(idx, "period_s"), DictGet(swell, "period", PyNone)),
      Entry(SwellKey(idx, "direction_deg"), DictGet(swell, "direction", PyNone))>>

RECURSIVE WaveCSV_swells(_, _, _)
\* for idx, swell in enumerate(comps, start=1): row[...] = ...
WaveCSV_swells(row, comps, idx) ==
    IF idx > Len(comps) THEN row
    ELSE WaveCSV_swells(RowUpdate(row, WaveCSV_component(idx, comps[idx])), comps, idx + 1)

\* the first six of a list: swells[:6]
FirstSix(items) == IF Len(items) > 6 THEN SubSeq(items, 1, 6) ELSE items

\* WaveCSV_point over all the components (swells in place of swells[:6])
WaveCSV_point_uncut(point) ==
    IF ~IsDict(point) THEN Raise
    ELSE LET surf == PyOr(DictGet(point, "surf", PyNone), PyDict(<<>>))
             swells == PyOr(DictGet(point, "swells", PyList(<<>>)), PyList(<<>>))
         IN  IF ~IsDict(surf) \/ ~IsList(swells) THEN Raise
             ELSE IF \E i \in 1..Len(swells.s) : ~IsDict(swells.s[i]) THEN Raise
             ELSE Ok(<<WaveCSV_swells(
                         <<Entry("timestamp", DictGet(point, "timestamp", PyNone)),
                           Entry("surf_min", DictGet(surf, "min", PyNone)),
                           Entry("surf_max", DictGet(surf, "max", PyNone))>>,
                         swells.s, 1)>>)

\* the body of the loop over the series
WaveCSV_point(point) ==
    IF ~IsDict(point) THEN Raise
    ELSE LET surf == PyOr(DictGet(point, "surf", PyNone), PyDict(<<>>))
             swells == PyOr(DictGet(point, "swells", PyList(<<>>)), PyList(<<>>))
         IN  IF ~IsDict(surf) \/ ~IsList(swells) THEN Raise
             ELSE IF \E i \in 1..Len(FirstSix(swells.s)) : ~IsDict(swells.s[i]) THEN Raise
             ELSE Ok(<<WaveCSV_swells(
                         <<Entry("timestamp", DictGet(point, "timestamp", PyNone)),
                           Entry("surf_min", DictGet(surf, "min", PyNone)),
                           Entry("surf_max", DictGet(surf, "max", PyNone))>>,
                         FirstSix(swells.s), 1)>>)

\* series = data.get("wave") or data.get("waveModel") or []
WaveCSV_flatten(json_obj) ==
    LET d == DataOf(json_obj) IN
    IF d.raised \/ ~IsDict(d.data) THEN Raise
    ELSE LET series == PyOr(DictGet(d.data, "wave", PyNone),
                            PyOr(DictGet(d.data, "waveModel", PyNone), PyList(<<>>)))
         IN  IF ~IsList(series) THEN Raise
             ELSE Collect([i \in 1..Len(series.s) |-> WaveCSV_point(series.s[i])])

(***************************************************************************)
(* WaveSpec: WaveCSV.flatten applied to one wave payload.                  *)
(***************************************************************************)
WaveComp(i) ==
    PyDict(<<Entry("height", PyNum(i)), Entry("period", PyNum(10 + i)),
             Entry("direction", PyNum(200 + i))>>)
WaveComps(n) == PyList([i \in 1..n |-> WaveComp(i)])

WaveSwells ==
    {<<>>, <<Entry("swells", PyNone)>>,
     <<Entry("swells", PyList(<<WaveComp(1), PyNum(9)>>))>>,
     <<Entry("swells", PyList(<<PyDict(<<Entry("height", PyNum(3))>>)>>))>>}
    \cup {<<Entry("swells", WaveComps(n))>> : n \in 0..MaxComps}

WavePoints ==
    {PyDict(<<Entry("timestamp", PyNum(1700)), Entry("surf", MinMax)>> \o sw) :
        sw \in WaveSwells}
    \cup {PyDict(<<Entry("timestamp", PyNum(1700))>> \o sw) : sw \in WaveSwells}

WaveSeries ==
    {<<>>} \cup {<<p>> : p \in WavePoints \cup {PyNum(5)}}
           \cup UNION {[1..n -> {PyDict(<<Entry("timestamp", PyNum(1700)),
                                          Entry("swells", WaveComps(c))>>) :
                                     c \in {1, 6, MaxComps}}] : n \in 2..MaxPoints}

WavePayloads ==
    {PyNone, PyDict(<<>>)}
    \cup {PyDict(<<Entry("data", PyDict(<<Entry(key, PyList(sr))>>))>>) :
              key \in {"wave", "waveModel"}, sr \in WaveSeries}

WaveInit ==
    /\ fKind = "wave"
    /\ fJson \in WavePayloads
    /\ fOut = NotCalled
    /\ fFile = NotWritten
    /\ g = GetIdle
    /\ HarvestIdle
    /\ DriftIdle /\ AnalyzeIdle /\ NameIdle /\ AuthIdle

DoWaveFlatten ==
    /\ fKind = "wave"
    /\ ~fOut.called
    /\ \E r \in {WaveCSV_flatten(fJson)} :
          fOut' = [called |-> TRUE, raised |-> r.raised, rows |-> r.rows]
    /\ UNCHANGED <<fKind, fJson, fFile, g, harvestVars, toolVars>>

WaveNext == DoWaveFlatten

WaveSpec == WaveInit /\ [][WaveNext]_vars

(***************************************************************************)
(* Properties of compute_24h_forecast_drift (DriftSpec).                   *)
(***************************************************************************)
Defined(row) == ~row.surf_mid.nan
DefinedRows == {i \in 1..Len(df) : Defined(df[i])}
Paired(i, j) ==
    \E n \in 1..Len(drift.pairs) : drift.pairs[n].left = i /\ drift.pairs[n].right = j
OneDayLater(i, j) ==
    /\ df[j].issue_date = df[i].issue_date + DAY
    /\ df[j].valid_time = df[i].valid_time

\* C11: the join is exact.  Every returned pair joins a row to a row issued
\* exactly one day later for exactly the same valid_time, and two rows of the
\* frame (with a defined surf_mid) are paired if and only if they are so
\* related: issue dates 0, 2 or 3 days apart, or valid times one second
\* apart, never pair.
C11_ExactJoin ==
    drift.called =>
       /\ \A n \in 1..Len(drift.pairs) :
             /\ OneDayLater(drift.pairs[n].left, drift.pairs[n].right)
             /\ drift.pairs[n].issue_date_y = drift.pairs[n].issue_date_x + DAY
       /\ \A i \in DefinedRows : \A j \in DefinedRows :
             Paired(i, j) <=> OneDayLater(i, j)

C11_Witness ==
    /\ drift.called
    /\ \E i \in DefinedRows : \E j \in DefinedRows : Paired(i, j)
    /\ \E i \in DefinedRows : \E j \in DefinedRows :
          /\ df[j].issue_date = df[i].issue_date + DAY
          /\ df[j].valid_time = df[i].valid_time + 1
          /\ ~Paired(i, j)
    /\ \E i \in DefinedRows : \E j \in DefinedRows :
          /\ df[j].issue_date = df[i].issue_date + 2 * DAY
          /\ df[j].valid_time = df[i].valid_time
          /\ ~Paired(i, j)

\* C12: in every pair, error is the surf_mid of the row issued a day later
\* minus the surf_mid of the earlier row, and abs_error its absolute value;
\* the frame of two rows one issue day apart for the same valid_time with
\* surf_mid 3.0 and 3.5 gives exactly one pair, with error 0.5 and
\* abs_error 0.5.
C12_LaterMinusEarlier ==
    drift.called =>
       /\ \A n \in 1..Len(drift.pairs) :
             LET p == drift.pairs[n]
                 d == df[p.right].surf_mid.v - df[p.left].surf_mid.v
             IN  /\ df[p.right].issue_date = df[p.left].issue_date + DAY
                 /\ p.surf_mid_D = df[p.left].surf_mid
                 /\ p.surf_mid_Dplus1 = df[p.right].surf_mid
                 /\ p.error = Float(d)
                 /\ p.abs_error = Float(IF d < 0 THEN 0 - d ELSE d)
       /\ df = <<Row(DAY, SixAM, Float(30)), Row(2 * DAY, SixAM, Float(35))>>
             => /\ Len(drift.pairs) = 1
                /\ drift.pairs[1].error = Float(5)
                /\ drift.pairs[1].abs_error = Float(5)

C12_Witness ==
    /\ drift.called
    /\ df = <<Row(DAY, SixAM, Float(30)), Row(2 * DAY, SixAM, Float(35))>>
    /\ Len(drift.pairs) = 1
    /\ drift.pairs[1].error = Float(5)

KeyCount(d, t) ==
    Cardinality({i \in DefinedRows : df[i].issue_date = d /\ df[i].valid_time = t})
PairCount(d, t) ==
    Cardinality({n \in 1..Len(drift.pairs) :
                    /\ drift.pairs[n].issue_date_x = d
                    /\ drift.pairs[n].valid_time = t})

\* C13: for every key (d, t), the number of pairs whose earlier row has that
\* key is m * n, m being the number of rows with the key (d, t) and n the
\* number of rows with the key (d + 1 day, t) -- rows with a defined
\* surf_mid; no two pairs join the same two rows.
C13_FanOut ==
    drift.called =>
       /\ \A d \in IssueDates : \A t \in ValidTimes :
             PairCount(d, t) = KeyCount(d, t) * KeyCount(d + DAY, t)
       /\ \A a \in 1..Len(drift.pairs) : \A b \in 1..Len(drift.pairs) :
             (drift.pairs[a].left = drift.pairs[b].left
                /\ drift.pairs[a].right = drift.pairs[b].right) => a = b

C13_Witness ==
    /\ drift.called
    /\ \E d \in IssueDates : \E t \in ValidTimes :
          KeyCount(d, t) = 2 /\ KeyCount(d + DAY, t) = 2 /\ PairCount(d, t) = 4


UndefinedRows == {i \in 1..Len(df) : ~Defined(df[i])}
SameKey(i, j) ==
    df[i].issue_date = df[j].issue_date /\ df[i].valid_time = df[j].valid_time

\* a pair without the positions of its rows in the frame
Columns(p) ==
    [issue_date_x |-> p.issue_date_x, valid_time |-> p.valid_time,
     surf_mid_D |-> p.surf_mid_D, issue_date_y |-> p.issue_date_y,
     surf_mid_Dplus1 |-> p.surf_mid_Dplus1, error |-> p.error,
     abs_error |-> p.abs_error]
ColumnsOf(pairs) == [n \in 1..Len(pairs) |-> Columns(pairs[n])]

\* C29: a row whose surf_mid is undefined is on neither side of any pair, and
\* the rows that share its key pair as they would without it: the pairs are
\* those of the frame with the undefined rows taken out.
C29_UndefinedNeverPairs ==
    drift.called =>
       /\ \A n \in 1..Len(drift.pairs) :
             /\ drift.pairs[n].left \notin UndefinedRows
             /\ drift.pairs[n].right \notin UndefinedRows
             /\ ~drift.pairs[n].surf_mid_D.nan
             /\ ~drift.pairs[n].surf_mid_Dplus1.nan
             /\ ~drift.pairs[n].error.nan
       /\ \A u \in UndefinedRows : \A i \in DefinedRows : \A j \in DefinedRows :
             ((SameKey(u, i) \/ SameKey(u, j)) /\ OneDayLater(i, j)) => Paired(i, j)
       /\ ColumnsOf(drift.pairs)
             = ColumnsOf(compute_24h_forecast_drift(SelectSeq(df, Defined)))

\* an undefined row beside each of two rows that pair
C29_Witness ==
    /\ drift.called
    /\ \E u \in UndefinedRows : \E v \in UndefinedRows :
       \E i \in DefinedRows : \E j \in DefinedRows :
          /\ SameKey(u, i) /\ SameKey(v, j)
          /\ OneDayLater(i, j) /\ OneDayLater(u, j) /\ OneDayLater(i, v)
          /\ Paired(i, j)
          /\ Len(drift.pairs) = 1

(***************************************************************************)
(* Properties of the analysis script (AnalyzeSpec).                        *)
(***************************************************************************)
NoFiles == an.folder = <<>>
NoLines(file) == file.lines = <<>> \/ file.lines = <<HeaderLine>>
EmptyInput == \A i \in 1..Len(an.folder) : NoLines(an.folder[i])

\* C14 as stated: on an empty input (no file at all, or files without a data
\* line) the analysis never raises, and when it has finished the pair set is
\* empty and the report is the no-overlap message.
C14_EmptyNeverRaises ==
    EmptyInput =>
        /\ an.pc # "raised"
        /\ an.pc = "done" => (drift.pairs = <<>> /\ an.report = "no_overlap")

\* C14: when the frame read has no rows, the drift table is empty and the
\* report is the no-overlap message; but a folder without any
\* forecast_wave_*.csv file makes read_forecast_folder raise
\* FileNotFoundError, and a file without any line makes it raise too, so
\* that the drift is never computed.
C14_EmptyFrameNoOverlap ==
    /\ (an.pc \in {"report", "done"} /\ df = <<>>) => drift.pairs = <<>>
    /\ (an.pc = "done" /\ df = <<>>) => an.report = "no_overlap"
    /\ (an.pc = "done" /\ an.report = "no_overlap") => drift.pairs = <<>>
    /\ (NoFiles /\ an.pc # "read") =>
           (an.pc = "raised" /\ an.err = "FileNotFoundError" /\ ~drift.called)
    /\ ((\E i \in 1..Len(an.folder) : an.folder[i].lines = <<>>) /\ an.pc # "read") =>
           (an.pc = "raised" /\ ~drift.called)

C14_Witness ==
    /\ an.pc = "done"
    /\ an.folder # <<>>
    /\ EmptyInput
    /\ df = <<>>
    /\ drift.called /\ drift.pairs = <<>>
    /\ an.report = "no_overlap"

(***************************************************************************)
(* Properties of a harvest run over files that exist already (Spec).       *)
(***************************************************************************)
LastPair == <<last.day, last.kind>>
LastFile == files[LastPair]

\* the re-run's rows for the last block: what flatten gave for the payload
\* the provider returned
RerunRows ==
    IF last.what = "wrote" THEN Flatten(last.kind, GoodPayload(last.kind)).rows
    ELSE Flatten(last.kind, EmptyPayload).rows

FetchedAndFlattened == last.what \in {"wrote", "no_rows"}

\* C15 as stated: in a re-run, whenever the fetch and the flatten of a block
\* succeeded, nothing of the prior file is left, whatever the new row set is.
C15_OverwritesUnconditionally ==
    (cfg.rerun /\ FetchedAndFlattened) =>
        /\ LastFile # PriorFile(last.kind)
        /\ Len(LastFile.lines) = Len(RerunRows)

\* C15: in a re-run, when the fetch and the flatten of a block succeeded with
\* at least one row and the write went through, the file is exactly what
\* writing the new rows into an empty file gives (nothing of the prior
\* content, nothing appended); when they gave no row, _write_dict_rows does
\* not touch the file and the prior content is all still there.
C15_OverwritesWhenRows ==
    /\ (cfg.rerun /\ last.what = "wrote") =>
          /\ RerunRows # <<>>
          /\ LastFile = WrittenFile(RerunRows)
          /\ Len(LastFile.lines) = Len(RerunRows)
          /\ LastFile # PriorFile(last.kind)
    /\ (cfg.rerun /\ last.what = "no_rows") =>
          /\ RerunRows = <<>>
          /\ LastFile = PriorFile(last.kind)

C15_Witness ==
    /\ cfg.rerun
    /\ last.what = "wrote"
    /\ LastFile = WrittenFile(RerunRows)
    /\ Len(PriorFile(last.kind).lines) > Len(LastFile.lines)
    /\ \E p \in Pairs : files[p] = PriorFile(p[2]) /\ loopCalls[p] = 1

\* C17: the requests of day d + 1 come after d pacing sleeps, one at the end
\* of each earlier day, and every pacing sleep has the length
\* SLEEP_BETWEEN_DAYS, whatever failed during the day.
C17_FixedPacing ==
    /\ hpc \in {"loop", "done"} => Len(paced) = cur - 1
    /\ \A i \in 1..Len(paced) : paced[i] = SLEEP_BETWEEN_DAYS
    /\ \A p \in Pairs : loopCalls[p] >= 1 => Len(paced) >= p[1] - 1

C17_Witness ==
    /\ hpc = "loop"
    /\ cur = 2
    /\ paced = <<SLEEP_BETWEEN_DAYS>>
    /\ \E p \in failed : p[1] = 1
    /\ loopCalls[<<1, "wind">>] = 1
    /\ loopCalls[<<2, "surf">>] = 1

\* the files a step changes
Touched == {p \in Pairs : files'[p] # files[p]}

\* the pairs a step adds to the failed ones
NewlyFailed == failed' \ failed

\* every file a step changes is the file of the pair the loop stands at, so
\* of the current day
OnlyOwnFile == \A p \in Touched : hpc = "loop" /\ kidx <= Len(Kinds) /\ p = <<cur, Kinds[kidx]>>

\* C27, as stated: a step changes at most the file of the pair it processes,
\* and a pair that fails changes no file.
C27_FailedWritesNothing ==
    [][OnlyOwnFile /\ (NewlyFailed # {} => Touched = {})]_vars

\* C27: a step changes at most the file of the pair it processes, so never a
\* file of an earlier day; a pair that fails in the request, in flatten or in
\* opening the file changes no file, and a pair that fails while the file is
\* written leaves that one file emptied.
C27_OnlyOwnFile ==
    [][/\ OnlyOwnFile
       /\ \A p \in Touched : p[1] = cur
       /\ NewlyFailed # {} =>
             \/ Touched = {}
             \/ /\ last'.what = "write_failed"
                /\ \A p \in Touched : p \in NewlyFailed /\ files'[p] = TruncatedFile]_vars

\* the second day has a pair that failed in the request and has no file,
\* while the files of the first day are all there
C27_Witness ==
    /\ ~cfg.rerun /\ cfg.subregion
    /\ cur = 2
    /\ last.what = "fetch_failed"
    /\ <<2, last.kind>> \in failed
    /\ files[<<2, last.kind>>] = NoFile
    /\ kidx > 2
    /\ files[<<2, Kinds[1]>>].exists
    /\ \A k \in KindSet : files[<<1, k>>] = Fetched[k][DefaultScript(k)].file[NoFile]

(***************************************************************************)
(* Properties of the credentials (AuthSpec).                               *)
(***************************************************************************)
\* a token is given or set when it is a non-empty string
Given(token) == token.t = "str" /\ token.n # 0
SentToken == DictGet(au.params, "accessToken", PyNone)

\* C18: the request carries the explicit per-call token when one is given,
\* else the stored token when one is set, else no accessToken parameter; the
\* other parameters are left alone.
C18_TokenOrder ==
    au.pc = "sent" =>
        /\ Given(au.explicit) =>
              (HasKey(au.params, "accessToken") /\ SentToken = au.explicit)
        /\ (~Given(au.explicit) /\ Given(au.stored)) =>
              (HasKey(au.params, "accessToken") /\ SentToken = au.stored)
        /\ (~Given(au.explicit) /\ ~Given(au.stored)) => au.params = SpotParams
        /\ \A i \in 1..Len(SpotParams.s) : au.params.s[i] = SpotParams.s[i]

C18_Witness ==
    /\ au.pc = "sent"
    /\ au.explicit = CallToken
    /\ au.stored = LoginToken
    /\ SentToken = CallToken

HasCredentials == Truthy(au.env.user) /\ Truthy(au.env.pwd)
LoginOk == au.attempts # <<>> /\ au.attempts[Len(au.attempts)] = "ok"

\* C20: the resolution of the credentials never raises, and it ends in one of
\* three ways: with the environment token stored and no login attempted;
\* else, with a user name and a password, with the token of the first
\* successful login stored (the long-lived attempt, then the short-lived
\* one); else, or when both logins failed, with no stored token.
C20_ThreeOutcomes ==
    au.pc # "auth" =>
        /\ ~au.raised /\ au.pc # "aborted"
        /\ au.outcome \in {"env_token", "login", "login_failed", "anonymous"}
        /\ Given(au.env.token) <=> au.outcome = "env_token"
        /\ au.outcome = "env_token" => (au.stored = au.env.token /\ au.attempts = <<>>)
        /\ (~Given(au.env.token) /\ HasCredentials) <=>
              au.outcome \in {"login", "login_failed"}
        /\ au.outcome = "login" =>
              /\ LoginOk
              /\ au.stored = (IF Len(au.attempts) = 1 THEN LoginToken ELSE LoginTokenShort)
        /\ au.outcome = "login_failed" =>
              /\ au.stored = PyNone
              /\ Len(au.attempts) = 2
              /\ \A i \in 1..2 : au.attempts[i] # "ok"
        /\ au.outcome = "anonymous" => (au.stored = PyNone /\ au.attempts = <<>>)
        /\ au.pc = "sent" /\ au.explicit = PyNone =>
              (HasKey(au.params, "accessToken") <=> au.outcome \in {"env_token", "login"})

C20_Witness ==
    /\ au.pc = "sent"
    /\ au.outcome = "login_failed"
    /\ au.attempts = <<"HTTPError", "RuntimeError">>
    /\ au.stored = PyNone
    /\ au.explicit = PyNone
    /\ ~HasKey(au.params, "accessToken")

(***************************************************************************)
(* Properties of WaveCSV.flatten (WaveSpec).                               *)
(***************************************************************************)
WaveSeriesOf(json) ==
    PyOr(DictGet(JsonData(json), "wave", PyNone),
         DictGet(JsonData(json), "waveModel", PyNone)).s

\* the components of a wave point (none when swells is absent or null)
WaveCompsOf(point) ==
    IF HasKey(point, "swells") /\ IsList(DictGet(point, "swells", PyNone))
    THEN DictGet(point, "swells", PyNone).s ELSE <<>>

Min(a, b) == IF a < b THEN a ELSE b
SwellFields == <<"height_m", "period_s", "direction_deg">>
SourceFields == <<"height", "period", "direction">>

\* C24: when WaveCSV.flatten returns, the row of a point with N components
\* holds timestamp, surf_min, surf_max and then, for n = 1..min(N, 6) in
\* source order, swell{n}_height_m, swell{n}_period_s, swell{n}_direction_deg
\* with the values of the n-th component; it has no other key, so none for
\* n > min(N, 6).
C24_FirstSixSwells ==
    (fKind = "wave" /\ fOut.called /\ ~fOut.raised /\ fOut.rows # <<>>) =>
        /\ Len(fOut.rows) = Len(WaveSeriesOf(fJson))
        /\ \A r \in 1..Len(fOut.rows) :
              LET row == fOut.rows[r]
                  comps == WaveCompsOf(WaveSeriesOf(fJson)[r])
                  kept == Min(Len(comps), 6)
              IN  /\ Len(row) = 3 + 3 * kept
                  /\ <<row[1].k, row[2].k, row[3].k>> = <<"timestamp", "surf_min", "surf_max">>
                  /\ \A n \in 1..kept : \A f \in 1..3 :
                        /\ row[3 * n + f].k = SwellKey(n, SwellFields[f])
                        /\ Entry("", row[3 * n + f]) = DictGet(comps[n], SourceFields[f], PyNone)
                  /\ \A n \in (kept + 1)..(MaxComps + 1) : \A f \in 1..3 :
                        SwellKey(n, SwellFields[f]) \notin RowKeys(row)

C24_Witness ==
    /\ fKind = "wave" /\ fOut.called /\ ~fOut.raised /\ Len(fOut.rows) = 1
    /\ Len(WaveCompsOf(WaveSeriesOf(fJson)[1])) = 7
    /\ RowGet(fOut.rows[1], "swell1_height_m") = PyNum(1)
    /\ RowGet(fOut.rows[1], "swell6_direction_deg") = PyNum(206)
    /\ "swell7_height_m" \notin RowKeys(fOut.rows[1])

RECURSIVE CountOk(_)
CountOk(attempts) ==
    IF attempts = <<>> THEN 0
    ELSE (IF Head(attempts) = "ok" THEN 1 ELSE 0) + CountOk(Tail(attempts))

\* how often api._access_token was assigned: once for the environment token,
\* once for each login that succeeded
TokenWrites == (IF au.outcome = "env_token" THEN 1 ELSE 0) + CountOk(au.attempts)

\* C26: the stored token is assigned at most once, before the first request;
\* every request of the run, whatever its outcome, has read the same stored
\* token, and that is still the stored token.
C26_TokenSetOnce ==
    /\ TokenWrites <= 1
    /\ TokenWrites = 0 => au.stored = PyNone
    /\ au.pc = "auth" => (au.seen = <<>> /\ au.stored = PyNone)
    /\ \A i \in 1..Len(au.seen) : au.seen[i].stored = au.stored

C26_Witness ==
    /\ au.pc = "sent"
    /\ au.attempts = <<"HTTPError", "ok">>
    /\ au.stored = LoginTokenShort
    /\ Len(au.seen) = 2
    /\ au.seen[1].outcome = "raised" /\ au.seen[1].gets = 5
    /\ au.seen[2].outcome = "returned" /\ au.seen[2].gets = 2

(***************************************************************************)
(* Properties of the file names (NameSpec).                                *)
(***************************************************************************)

\* C16: for every issue date d, the name of the surf file the harvester
\* writes for d is accepted by _parse_issue_date_from_name and parses back to
\* d at UTC midnight.
C16_TagRoundTrips ==
    (nm.pc = "done" /\ nm.writer = "harvest")
        => (~nm.parse.raised /\ nm.parse.date = nm.date)

====
